---- MODULE Spec2Model ----
(***************************************************************************)
(* State-machine model of the DroidClaw server.                            *)
(*                                                                         *)
(*   SpecGoals    goal submission and stop (server/src/routes/goals.ts)    *)
(*   SpecPairing  OTP pairing: create, claim, rate limiter                 *)
(*                (server/src/routes/pairing.ts)                           *)
(*   SpecCreate   the same, with more create requests                      *)
(*   SpecStatus   the pairing routes with GET /pairing/status              *)
(*                                                                         *)
(*   SpecRate     the claim rate limiter on a finer clock, over a pairing  *)
(*                code that is already in the table                        *)
(*   SpecVoice    voice sessions (server/src/ws/voice.ts)                  *)
(*   SpecVoiceRestart  the same, with more sessions                        *)
(*                                                                         *)
(* Every request handler is split at its awaits: one action per stretch of *)
(* code that the single-threaded event loop runs without interruption.     *)
(***************************************************************************)
EXTENDS Integers, Sequences, FiniteSets, Bags, TLC

(***************************************************************************)
(* Bounds of the model.                                                    *)
(***************************************************************************)
\* number of goal submissions that may wait for their LLM config at once
MaxGoalReqs == 2
\* number of agent loops started over a behaviour
MaxLoops == 2

\* number of clock ticks of SpecPairing and of SpecRate
MaxTicks == 2
MaxRateTicks == 3
MaxStatusTicks == 3
\* number of status requests that may wait for their select at once
MaxStatuses == 1

\* number of voice sessions started over a behaviour of SpecVoice and of
\* SpecVoiceRestart
MaxVoiceSessions == 1
MaxVoiceRestarts == 3
\* bytes a voice session may buffer
MaxVoiceBytes == 4000
\* number of transcribeAudio calls that may be in progress at once
MaxVoiceFlight == 1
\* the same where handlers of one session overlap
MaxVoiceOverlap == 2
\* number of investigate calls, and of those in progress at once
MaxInvestigations == 3
MaxInvestigateFlight == 2
\* step budget of the agent loop (MAX_STEPS, or maxSteps of the goal)
maxSteps == 4
\* number of commands sent to a device over a behaviour
MaxCommands == 3
\* failed reconnection attempts in a row, and messages the device submits
MaxReconnects == 6
MaxMessages == 3
\* number of pairing codes created over a behaviour of SpecPairing and of
\* SpecCreate
MaxCreates == 1
MaxUserCreates == 2
\* number of pairing requests (create, claim) that may be in flight at once
MaxInFlight == 2
\* claim requests of one ip in one rate-limit window: SpecPairing, SpecRate
MaxClaims == 2
MaxRateClaims == 7

(***************************************************************************)
(* Goal submission: the inputs.                                            *)
(***************************************************************************)
Users == {"u1", "u2"}
Goals == {"g1", "g2"}
\* connection ids of the devices that may connect
Conns == {"c1", "c2"}
\* null / undefined
Null == "null"
\* body.deviceId: missing (""), a connection id, a persistent id
BodyDeviceIds == {"", "c1", "c2", "p1"}
\* body.goal: missing ("") or a goal
BodyGoals == {""} \cup Goals
\* the sessionId goals.ts stores in the admission map
Pending == 0

VARIABLES
    connected,       \* sessions: the connected devices (connection ids)
    activeSessions,  \* goals.ts activeSessions: trackingKey -> entry or Null
    loops,           \* the agent loops that are running: sessionId -> loop
    nextSession,     \* number of agent loops started so far
    aborted,         \* running loops whose AbortController was aborted
    greq,            \* goal submissions waiting for their LLM config (a bag)
    last,            \* what the handler that ran last saw and answered
    endedOn          \* the tracking keys on which a loop has terminated

goalVars ==
    <<connected, activeSessions, loops, nextSession, aborted, greq, last, endedOn>>

(***************************************************************************)
(* Pairing: constants and inputs.                                          *)
(***************************************************************************)
\* claim attempts allowed per window (entry.count > 5)
MaxAttempts == 5
\* length of a rate-limit window (now + 60_000)
RateWindowMs == 60000
\* lifetime of a pairing code (5 * 60_000)
CodeTtlMs == 5 * 60000
\* the clock of SpecPairing advances by half a code lifetime, the clock of
\* SpecRate by half a rate-limit window
PairingTickMs == CodeTtlMs \div 2
RateTickMs == RateWindowMs \div 2
\* the 6-digit codes Math.random may produce
Codes == {"111111", "222222"}
\* body.code after trim(): missing, not 6 digits, or a 6-digit code
ClaimInputs == {"", "12345x"} \cup Codes
\* x-forwarded-for ?? x-real-ip ?? "unknown"
IPs == {"10.0.0.1", "unknown"}

VARIABLES
    now,             \* Date.now(), in ms
    pairingCode,     \* the rows of table pairing_code
    nextId,          \* number of rows inserted so far (row ids are fresh)
    claimAttempts,   \* pairing.ts claimAttempts: ip -> {count, resetAt}
    apiKeys,         \* row id -> number of API keys created from that row,
                     \* for the rows in the table or held by a claim
    creates,         \* create requests between their delete and insert (a bag)
    claims,          \* claim requests past the rate limiter (a bag)
    claimedCodes,    \* codes whose latest row was claimed successfully
    passes,          \* ip -> recent attempts that got past the rate limiter
    plast,           \* what the pairing handler that ran last saw and answered
    statuses,        \* status requests waiting for their select (a bag)
    claimedBy        \* users of whom a code was claimed successfully

pairVars ==
    <<now, pairingCode, nextId, claimAttempts, apiKeys, creates, claims,
      claimedCodes, passes, plast, statuses, claimedBy>>

(***************************************************************************)
(* Voice sessions: constants and inputs (server/src/ws/voice.ts).          *)
(***************************************************************************)
\* voice.ts 24
MIN_AUDIO_BYTES == 3200
\* the devices that stream audio
VoiceDevices == {"d1"}
\* decoded.length of a chunk
ChunkBytes == {800}
\* a chunk that reaches the minimum at once
RestartChunkBytes == {MIN_AUDIO_BYTES}
\* what transcribeAudio may do: return a text, return "", throw
Outcomes == {"text", "empty", "error"}

VARIABLES
    voiceSessions,   \* voice.ts activeSessions: deviceId -> session
    vsess,           \* the VoiceSession objects, in creation order
    partials,        \* timer callbacks waiting for transcribeAudio (a bag)
    sends,           \* handleVoiceSend calls waiting for transcribeAudio (a bag)
    vlast            \* what the voice handler that ran last saw and did

voiceVars == <<voiceSessions, vsess, partials, sends, vlast>>

(***************************************************************************)
(* Agent loop: one goal execution, from its acceptance on.                 *)
(***************************************************************************)
\* README.md, Config: STUCK_THRESHOLD
stuckThreshold == 3
\* the screen hashes an observation may give
ScreenHashes == {"h1", "h2"}
\* the terminal states of the loop
Terminal == {"Completed", "Failed", "Cancelled"}

VARIABLES
    phase,           \* state of the loop: Idle, Observing, ..., Cancelled
    sessionStatus,   \* AgentSession status
    stepsUsed,       \* AgentSession steps used
    hashes,          \* screen hash of every step so far, in order
    lastHash,        \* screen hash of the previous step
    sameCount,       \* consecutive steps with the hash of the last one
    stuck,           \* the next reasoning request gets the directive
    cancelSignal,    \* the external cancellation signal was given
    decision,        \* decision of the reasoning service for this step
    reason           \* reason recorded with the terminal status

loopVars == <<phase, sessionStatus, stepsUsed, hashes, lastHash, sameCount,
              stuck, cancelSignal, decision, reason>>

(***************************************************************************)
(* Request correlation of a device session.                                *)
(***************************************************************************)
VARIABLES
    pending,         \* requestId -> pending waiter: its key set
    settled,         \* requestId -> how its waiter ended
    atDevice,        \* commands the device has not answered yet
    wire,            \* results on their way to the orchestrator
    nextRequest,     \* last request identifier handed out
    linkUp,          \* the device session is up
    rlast            \* what the correlation step that ran last did

routerVars == <<pending, settled, atDevice, wire, nextRequest, linkUp, rlast>>

(***************************************************************************)
(* Reliable transport, device side (ReliableWebSocket).                    *)
(***************************************************************************)
\* part_005, ReliableWebSocket, Reconnect: 1s -> 2s -> 4s -> 8s -> max 30s
InitialBackoffMs == 1000
MaxBackoffMs == 30000

VARIABLES
    wsState,         \* Connected, Waiting (backoff runs), Connecting
    backoffMs,       \* wait before the next reconnection attempt
    failures,        \* failed attempts since the connection was lost
    lastWaitMs,      \* the wait that preceded the last attempt
    outbound,        \* messages buffered while disconnected, oldest first
    delivered,       \* messages written to the socket, in order
    submitted,       \* messages the device handed to the transport, in order
    lastFlush        \* messages the last authentication found buffered

wsVars == <<wsState, backoffMs, failures, lastWaitMs, outbound, delivered,
            submitted, lastFlush>>

(***************************************************************************)
(* Skills (skills.ts): a call of executeSkill, its commands, its result.   *)
(***************************************************************************)
VARIABLES
    skillPc,         \* "idle", or the skill whose loop is running
    locals,          \* decision, elements and loop variables of the call
    cmds,            \* runAdbCommand calls of the call that act on the device
    rescans,         \* the screens rescanScreen returned to the call
    result,          \* the ActionResult the last call returned
    returned,        \* number of ActionResults the call has returned
    lastCommentLikeAttempt,   \* skills.ts 515
    likeLog          \* ordinal -> what like_nth_comment recorded for it

skillVars == <<skillPc, locals, cmds, rescans, result, returned,
               lastCommentLikeAttempt, likeLog>>

(***************************************************************************)
(* DroidClawAccessibilityService.getScreenTree (device)                    *)
(***************************************************************************)
VARIABLES
    treePc,          \* "idle", or "attempt" while getScreenTree is running
    treeAttempts,        \* what each attempt of the call found
    waits,           \* the delays of the call, in ms
    treeResult,      \* what the last call returned
    lastScreenTree   \* DroidClawAccessibilityService.kt 689

treeVars == <<treePc, treeAttempts, waits, treeResult, lastScreenTree>>

(***************************************************************************)
(* POST /investigate/:sessionId (health.ts 39-182)                         *)
(***************************************************************************)
VARIABLES
    appHint,         \* the rows of the app_hint table
    investigations,  \* the calls of the handler, in the order they began
    hintClock        \* rows inserted so far: the next row's id and createdAt

hintVars == <<appHint, investigations, hintClock>>

\* the variables each part of the system leaves alone
notGoals == <<pairVars, voiceVars, loopVars, routerVars, wsVars,
              skillVars, treeVars, hintVars>>
notPairing == <<goalVars, voiceVars, loopVars, routerVars, wsVars,
                skillVars, treeVars, hintVars>>
notVoice == <<goalVars, pairVars, loopVars, routerVars, wsVars,
              skillVars, treeVars, hintVars>>
notLoop == <<goalVars, pairVars, voiceVars, routerVars, wsVars,
             skillVars, treeVars, hintVars>>
notRouter == <<goalVars, pairVars, voiceVars, loopVars, wsVars,
               skillVars, treeVars, hintVars>>
notWs == <<goalVars, pairVars, voiceVars, loopVars, routerVars,
           skillVars, treeVars, hintVars>>
notSkills == <<goalVars, pairVars, voiceVars, loopVars, routerVars,
               wsVars, treeVars, hintVars>>
notTree == <<goalVars, pairVars, voiceVars, loopVars, routerVars,
             wsVars, skillVars, hintVars>>
notHints == <<goalVars, pairVars, voiceVars, loopVars, routerVars,
              wsVars, skillVars, treeVars>>


(***************************************************************************)
(* Map helpers (a JavaScript Map is a function on the set of its keys).    *)
(***************************************************************************)
MapHas(m, k) == k \in DOMAIN m
MapSet(m, k, v) == [x \in (DOMAIN m) \cup {k} |-> IF x = k THEN v ELSE m[x]]
MapDelete(m, k) == [x \in (DOMAIN m) \ {k} |-> m[x]]
EmptyMap == [x \in {} |-> Null]

(***************************************************************************)
(* The device registry consulted by goals.ts (sessions).                   *)
(***************************************************************************)
\* device.persistentDeviceId: "c1" has one, "c2" has none
PersistentId(c) == IF c = "c1" THEN "p1" ELSE Null
\* device.userId
DeviceUser(c) == IF c = "c1" THEN "u1" ELSE "u2"

getDevice(id) == IF id \in connected THEN id ELSE Null

getDeviceByPersistentId(id) ==
    IF \E c \in connected : PersistentId(c) = id
    THEN CHOOSE c \in connected : PersistentId(c) = id
    ELSE Null

\* sessions.getDevice(id) ?? sessions.getDeviceByPersistentId(id)
LookupDevice(id) ==
    IF getDevice(id) # Null THEN getDevice(id) ELSE getDeviceByPersistentId(id)

\* device.persistentDeviceId ?? device.deviceId
TrackingKey(c) == IF PersistentId(c) # Null THEN PersistentId(c) ELSE c

(***************************************************************************)
(* Agent loops.  runAgentLoop creates the loop's sessionId; the model      *)
(* numbers the loops in start order and uses that number as sessionId and  *)
(* as the identity of the loop's AbortController.  A loop leaves loops     *)
(* when its promise settles.                                               *)
(***************************************************************************)
RunningOn(k) == {i \in DOMAIN loops : loops[i].key = k}
\* the sessionId and goal of each of them
Sessions(k) == {[sessionId |-> i, goal |-> loops[i].goal] : i \in RunningOn(k)}

\* what a handler saw and answered: whether a required field of the body
\* was missing, the device found, whether the caller owns it, the tracking
\* key, the loops running on that key when it ran, the answer, the sessionId
\* and goal of a conflict answer, the controller it aborted or the loop it
\* started or released, whether it changed the admission map
NoLast ==
    [op |-> "none", missing |-> FALSE, conn |-> Null, owner |-> FALSE,
     key |-> Null, running |-> {}, out |-> "none", sessionId |-> Pending,
     rgoal |-> "", target |-> 0, touched |-> FALSE]

InitGoals ==
    /\ connected = {}
    /\ activeSessions = EmptyMap
    /\ loops = EmptyMap
    /\ nextSession = 0
    /\ aborted = {}
    /\ greq = EmptyBag
    /\ last = NoLast
    /\ endedOn = {}

\* a device authenticates over its WebSocket and is registered
DeviceConnect(c) ==
    /\ c \notin connected
    /\ connected' = connected \cup {c}
    /\ UNCHANGED <<activeSessions, loops, nextSession, aborted, greq, last, endedOn>>

\* the device's WebSocket closes and it is removed from the registry
DeviceDisconnect(c) ==
    /\ c \in connected
    /\ connected' = connected \ {c}
    /\ UNCHANGED <<activeSessions, loops, nextSession, aborted, greq, last, endedOn>>

\* record what the handler answered, and whether it changed the admission map
Answer(a) == last' = [a EXCEPT !.touched = (activeSessions' # activeSessions)]

\* goals.ts 124-143: start the loop and track it as active
StartLoop(key, goal) ==
    /\ nextSession' = nextSession + 1
    /\ loops' = MapSet(loops, nextSession + 1, [key |-> key, goal |-> goal])
    /\ activeSessions' = MapSet(activeSessions, key,
                                [sessionId |-> Pending, goal |-> goal,
                                 abort |-> nextSession + 1])

\* loops still to be started by the requests waiting for their LLM config
LoopBudget == nextSession + BagCardinality(greq) < MaxLoops

\* a slip that reads the admission map before the ownership check
AdmissionBeforeOwnership(user, deviceId, goal) ==
    LET device == LookupDevice(deviceId) IN
    IF deviceId = "" \/ goal = "" THEN "required"
    ELSE IF device = Null THEN "not_connected"
    ELSE IF MapHas(activeSessions, TrackingKey(device)) THEN "conflict"
    ELSE IF DeviceUser(device) # user THEN "forbidden"
    ELSE "admit"

\* goals.ts 64-87: the answer of the validation and admission checks, or
\* "admit" when the request passes them
Admission(user, deviceId, goal) ==
    LET device == LookupDevice(deviceId) IN
    IF deviceId = "" \/ goal = "" THEN "required"
    ELSE IF device = Null THEN "not_connected"
    ELSE IF DeviceUser(device) # user THEN "forbidden"
    ELSE IF MapHas(activeSessions, TrackingKey(device)) THEN "conflict"
    ELSE "admit"

\* POST /goals up to its first await after the body is read (lines 53-100);
\* with body.llmApiKey the handler runs through to line 164 without an await
GoalPost(user, deviceId, goal, llmApiKey) ==
    LET device == LookupDevice(deviceId)
        out == Admission(user, deviceId, goal)
        key == IF device = Null THEN Null ELSE TrackingKey(device)
        seen == [NoLast EXCEPT !.op = "post",
                               !.missing = (deviceId = "" \/ goal = ""),
                               !.conn = device,
                               !.owner = (device # Null /\ DeviceUser(device) = user),
                               !.key = key, !.running = Sessions(key)]
    IN
    /\ IF out = "admit"
       THEN /\ LoopBudget
            /\ BagCardinality(greq) < MaxGoalReqs
            /\ IF llmApiKey
               THEN /\ StartLoop(key, goal)
                    /\ Answer([seen EXCEPT !.out = "started",
                                           !.target = nextSession + 1])
                    /\ UNCHANGED <<connected, aborted, greq, endedOn>>
               ELSE /\ greq' = greq (+) SetToBag({[key |-> key, goal |-> goal]})
                    /\ UNCHANGED <<connected, activeSessions, loops,
                                   nextSession, aborted, endedOn>>
                    /\ Answer([seen EXCEPT !.out = "await"])
       ELSE /\ UNCHANGED <<connected, activeSessions, loops, nextSession,
                           aborted, greq, endedOn>>
            /\ Answer(IF out = "conflict"
                      THEN [seen EXCEPT !.out = out,
                                !.sessionId = activeSessions[key].sessionId,
                                !.rgoal = activeSessions[key].goal]
                      ELSE [seen EXCEPT !.out = out])

\* POST /goals after the select on llm_config returned (lines 106-164):
\* cfg is where a config was found: the user's row, the environment, nowhere
GoalPostConfig(q, cfg) ==
    LET seen == [NoLast EXCEPT !.op = "config", !.owner = TRUE, !.key = q.key,
                               !.running = Sessions(q.key)]
    IN
    /\ BagIn(q, greq)
    /\ greq' = greq (-) SetToBag({q})
    /\ IF cfg = "none"
       THEN /\ UNCHANGED <<connected, activeSessions, loops, nextSession,
                           aborted, endedOn>>
            /\ Answer([seen EXCEPT !.out = "no_llm"])
       ELSE /\ StartLoop(q.key, q.goal)
            /\ Answer([seen EXCEPT !.out = "started", !.target = nextSession + 1])
            /\ UNCHANGED <<connected, aborted, endedOn>>

\* the promise of loop i settles: the loop is over
Settle(i, how) ==
    /\ i \in DOMAIN loops
    /\ loops' = MapDelete(loops, i)
    /\ aborted' = aborted \ {i}
    /\ endedOn' = endedOn \cup {loops[i].key}
    /\ last' = [NoLast EXCEPT !.op = how, !.key = loops[i].key,
                              !.running = Sessions(loops[i].key), !.target = i,
                              !.out = IF i \in aborted THEN "aborted" ELSE "ran"]
    /\ UNCHANGED <<connected, nextSession, greq>>

\* loopPromise.then: the loop returned its result (lines 146-151)
LoopThen(i) ==
    /\ Settle(i, "then")
    /\ activeSessions' = MapDelete(activeSessions, loops[i].key)

\* a slip that forgets the release on the error path
LoopCatchKeepsEntry(i) ==
    /\ Settle(i, "catch")
    /\ UNCHANGED activeSessions

\* loopPromise.catch: the loop threw (lines 152-155)
LoopCatch(i) ==
    /\ Settle(i, "catch")
    /\ activeSessions' = MapDelete(activeSessions, loops[i].key)

\* POST /goals/stop (lines 167-194), which has no await after the body is read
GoalStop(user, deviceId) ==
    LET device == LookupDevice(deviceId)
        key == IF device = Null THEN Null ELSE TrackingKey(device)
        out == IF deviceId = "" THEN "required"
               ELSE IF device = Null THEN "not_connected"
               ELSE IF DeviceUser(device) # user THEN "forbidden"
               ELSE IF ~MapHas(activeSessions, key) THEN "no_agent"
               ELSE "stopping"
        ctl == IF out = "stopping" THEN activeSessions[key].abort ELSE 0
    IN
    /\ aborted' = IF out = "stopping" THEN aborted \cup ({ctl} \cap DOMAIN loops)
                  ELSE aborted
    /\ UNCHANGED <<connected, activeSessions, loops, nextSession, greq, endedOn>>
    /\ Answer([NoLast EXCEPT !.op = "stop", !.missing = (deviceId = ""),
                             !.conn = device,
                             !.owner = (device # Null /\ DeviceUser(device) = user),
                             !.key = key, !.running = Sessions(key),
                             !.out = out, !.target = ctl])

NextGoals ==
    \/ \E c \in Conns : DeviceConnect(c) /\ UNCHANGED notGoals
    \/ \E c \in Conns : DeviceDisconnect(c) /\ UNCHANGED notGoals
    \/ \E u \in Users, d \in BodyDeviceIds, g \in BodyGoals, k \in BOOLEAN :
          GoalPost(u, d, g, k) /\ UNCHANGED notGoals
    \/ \E q \in BagToSet(greq), cfg \in {"db", "env", "none"} :
          GoalPostConfig(q, cfg) /\ UNCHANGED notGoals
    \/ \E i \in 1..MaxLoops : LoopThen(i) /\ UNCHANGED notGoals
    \/ \E i \in 1..MaxLoops : LoopCatch(i) /\ UNCHANGED notGoals
    \/ \E u \in Users, d \in BodyDeviceIds : GoalStop(u, d) /\ UNCHANGED notGoals

(***************************************************************************)
(* Pairing (server/src/routes/pairing.ts).                                 *)
(***************************************************************************)
NoRow == [id |-> 0, code |-> "", userId |-> "", expiresAt |-> 0, createdAt |-> 0]

\* what a pairing handler saw and answered: whether the code it looked up
\* had been claimed successfully before, whether its row was there but
\* expired, the answer, whether the handler changed the table or the API
\* keys, and by how much it changed the number of claims past the rate
\* limiter (1: a request went past it, -1: a request ended)
\* of a status request it holds the user, whether the select returned a row
\* and whether the expiry time of that row had passed when the request came
NoPLast ==
    [op |-> "none", late |-> FALSE, expired |-> FALSE, out |-> "none",
     touched |-> FALSE, flight |-> 0,
     user |-> "", hasRow |-> FALSE, rowPast |-> FALSE]

PAnswer(a) ==
    plast' = [a EXCEPT
                 !.touched = (pairingCode' # pairingCode \/ apiKeys' # apiKeys),
                 !.flight = BagCardinality(claims') - BagCardinality(claims)]

InitPairing ==
    /\ now = 0
    /\ pairingCode = {}
    /\ nextId = 0
    /\ claimAttempts = EmptyMap
    /\ apiKeys = EmptyMap
    /\ creates = EmptyBag
    /\ claims = EmptyBag
    /\ claimedCodes = {}
    /\ passes = [ip \in IPs |-> <<>>]
    /\ plast = NoPLast
    /\ statuses = EmptyBag
    /\ claimedBy = {}

\* the attempts worth remembering at time t: those of the last RateWindowMs
\* and those of the ip's current window
Recent(log, ip, t, attempts) ==
    SelectSeq(log, LAMBDA e :
        \/ e.at > t - RateWindowMs
        \/ (MapHas(attempts, ip) /\ attempts[ip].resetAt = e.resetAt))

\* the clock advances by d, n times at most
Tick(d, n) ==
    /\ now + d <= n * d
    /\ now' = now + d
    /\ passes' = [ip \in IPs |-> Recent(passes[ip], ip, now + d, claimAttempts)]
    /\ UNCHANGED <<pairingCode, nextId, claimAttempts, apiKeys, creates, claims,
                   claimedCodes, plast>>

\* pairing.ts 11-22, the branch taken: a new window is opened
NewWindow(ip) ==
    IF MapHas(claimAttempts, ip) THEN now > claimAttempts[ip].resetAt ELSE TRUE

\* pairing.ts 11-22, the effect on claimAttempts
CountAttempt(ip) ==
    IF NewWindow(ip)
    THEN MapSet(claimAttempts, ip, [count |-> 1, resetAt |-> now + RateWindowMs])
    ELSE MapSet(claimAttempts, ip,
                [claimAttempts[ip] EXCEPT !.count = claimAttempts[ip].count + 1])

\* a slip that compares the count before incrementing it
isRateLimitedPostIncrement(ip) ==
    IF NewWindow(ip) THEN FALSE ELSE claimAttempts[ip].count > MaxAttempts

\* pairing.ts 11-22, the value returned
isRateLimited(ip) ==
    IF NewWindow(ip) THEN FALSE ELSE claimAttempts[ip].count + 1 > MaxAttempts

\* pairing.ts 24-30: the cleanup timer (every 5 minutes) drops the stale entries
CleanupStale ==
    LET stale == {ip \in DOMAIN claimAttempts : now > claimAttempts[ip].resetAt} IN
    /\ stale # {}
    /\ claimAttempts' = [ip \in (DOMAIN claimAttempts) \ stale |-> claimAttempts[ip]]
    /\ passes' = [ip \in IPs |-> Recent(passes[ip], ip, now, claimAttempts')]
    /\ UNCHANGED <<now, pairingCode, nextId, apiKeys, creates, claims,
                   claimedCodes, plast>>

\* the pairing requests in flight
InFlight ==
    BagCardinality(creates) + BagCardinality(claims) + BagCardinality(statuses)

\* the ids of the rows in table rows or held by a claim of cl
LiveIds(rows, cl) ==
    {r.id : r \in rows} \cup {q.row.id : q \in BagToSet(cl)}

\* the key counts of the rows that are still in the table or held by a claim
KeysOf(keys, rows, cl) ==
    [i \in (DOMAIN keys) \cap LiveIds(rows, cl) |-> keys[i]]

\* POST /pairing/create up to the end of its delete (lines 37-41)
CreateDelete(user) ==
    /\ InFlight < MaxInFlight
    /\ pairingCode' = {r \in pairingCode : r.userId # user}
    /\ creates' = creates (+) SetToBag({[userId |-> user]})
    /\ apiKeys' = KeysOf(apiKeys, pairingCode', claims)
    /\ UNCHANGED <<now, nextId, claimAttempts, claims, claimedCodes, passes>>
    /\ PAnswer([NoPLast EXCEPT !.op = "create", !.out = "deleted"])

\* POST /pairing/create from its code generation to its answer (lines 43-55);
\* column code is UNIQUE, so the insert of a code that is in the table throws
CreateInsert(q, code) ==
    /\ BagIn(q, creates)
    /\ creates' = creates (-) SetToBag({q})
    /\ IF \E r \in pairingCode : r.code = code
       THEN /\ UNCHANGED <<pairingCode, nextId, claimedCodes>>
            /\ UNCHANGED <<now, claimAttempts, apiKeys, claims, passes>>
            /\ PAnswer([NoPLast EXCEPT !.op = "insert", !.out = "error"])
       ELSE /\ nextId' = nextId + 1
            /\ pairingCode' = pairingCode \cup
                   {[id |-> nextId + 1, code |-> code, userId |-> q.userId,
                     expiresAt |-> now + CodeTtlMs, createdAt |-> now]}
            /\ claimedCodes' = claimedCodes \ {code}
            /\ UNCHANGED <<now, claimAttempts, apiKeys, claims, passes>>
            /\ PAnswer([NoPLast EXCEPT !.op = "insert", !.out = "created"])

\* POST /pairing/claim up to its first await (lines 86-93): the rate limiter
ClaimStart(ip) ==
    /\ claimAttempts' = CountAttempt(ip)
    /\ IF isRateLimited(ip)
       THEN /\ UNCHANGED <<claims, passes>>
            /\ UNCHANGED <<now, pairingCode, nextId, apiKeys, creates, claimedCodes>>
            /\ PAnswer([NoPLast EXCEPT !.op = "claim", !.out = "limited"])
       ELSE /\ InFlight < MaxInFlight
            /\ claims' = claims (+) SetToBag({[pc |-> "parse", row |-> NoRow,
                                               fresh |-> FALSE]})
            /\ passes' = [passes EXCEPT ![ip] =
                   Recent(Append(passes[ip],
                                 [at |-> now, resetAt |-> claimAttempts'[ip].resetAt]),
                          ip, now, claimAttempts')]
            /\ UNCHANGED <<now, pairingCode, nextId, apiKeys, creates, claimedCodes>>
            /\ PAnswer([NoPLast EXCEPT !.op = "claim", !.out = "passed"])

\* a slip that takes a code whose expiry time is the time of the claim
ValidRowsAtExpiry(code) ==
    {r \in pairingCode : r.code = code /\ r.expiresAt >= now}

\* pairing.ts 103-107: the rows the select may return
ValidRows(code) ==
    {r \in pairingCode : r.code = code /\ r.expiresAt > now}

\* POST /pairing/claim from the parsed body to the select (lines 93-111)
ClaimLookup(q, input) ==
    LET seen == [NoPLast EXCEPT !.op = "lookup",
                     !.late = (input \in claimedCodes),
                     !.expired = (/\ \E r \in pairingCode : r.code = input
                                  /\ \A r \in pairingCode :
                                         r.code = input => r.expiresAt <= now)]
    IN
    /\ BagIn(q, claims)
    /\ q.pc = "parse"
    /\ UNCHANGED <<now, pairingCode, nextId, claimAttempts, apiKeys, creates,
                   claimedCodes, passes>>
    /\ IF input \notin Codes
       THEN /\ claims' = claims (-) SetToBag({q})
            /\ PAnswer([seen EXCEPT !.out = "bad_format"])
       ELSE IF ValidRows(input) = {}
       THEN /\ claims' = claims (-) SetToBag({q})
            /\ PAnswer([seen EXCEPT !.out = "invalid"])
       ELSE \E r \in ValidRows(input) :
            /\ claims' = (claims (-) SetToBag({q}))
                         (+) SetToBag({[pc |-> "issue", row |-> r,
                                        fresh |-> (r.expiresAt > now)]})
            /\ PAnswer([seen EXCEPT !.out = "found"])

\* POST /pairing/claim: auth.api.createApiKey (lines 113-122)
ClaimIssue(q) ==
    /\ BagIn(q, claims)
    /\ q.pc = "issue"
    /\ apiKeys' = MapSet(apiKeys, q.row.id,
                          IF MapHas(apiKeys, q.row.id)
                          THEN apiKeys[q.row.id] + 1 ELSE 1)
    /\ claims' = (claims (-) SetToBag({q})) (+) SetToBag({[q EXCEPT !.pc = "delete"]})
    /\ UNCHANGED <<now, pairingCode, nextId, claimAttempts, creates,
                   claimedCodes, passes>>
    /\ PAnswer([NoPLast EXCEPT !.op = "issue", !.out = "key"])

\* a slip that leaves the used code in the table
ClaimDeleteKeepsRow(q) ==
    /\ BagIn(q, claims)
    /\ q.pc = "delete"
    /\ UNCHANGED pairingCode
    /\ claims' = claims (-) SetToBag({q})
    /\ apiKeys' = KeysOf(apiKeys, pairingCode', claims')
    /\ claimedCodes' = claimedCodes \cup {q.row.code}
    /\ claimedBy' = claimedBy \cup {q.row.userId}
    /\ UNCHANGED <<now, nextId, claimAttempts, creates, passes>>
    /\ PAnswer([NoPLast EXCEPT !.op = "claimed", !.out = "ok"])

\* POST /pairing/claim: delete the used code and answer (lines 124-129); the
\* code counts as claimed unless a newer row carries the same digits
ClaimDelete(q) ==
    /\ BagIn(q, claims)
    /\ q.pc = "delete"
    /\ pairingCode' = {r \in pairingCode : r.id # q.row.id}
    /\ claims' = claims (-) SetToBag({q})
    /\ apiKeys' = KeysOf(apiKeys, pairingCode', claims')
    /\ claimedCodes' = IF \E r \in pairingCode' : r.code = q.row.code
                       THEN claimedCodes
                       ELSE claimedCodes \cup {q.row.code}
    /\ claimedBy' = claimedBy \cup {q.row.userId}
    /\ UNCHANGED <<now, nextId, claimAttempts, creates, passes>>
    /\ PAnswer([NoPLast EXCEPT !.op = "claimed", !.out = "ok"])

\* the create requests of a behaviour are bounded by n
CreateBudget(n) == nextId + BagCardinality(creates) < n

\* the claim requests of one ip in one window are bounded by n
ClaimBudget(ip, n) == IF NewWindow(ip) THEN TRUE ELSE claimAttempts[ip].count < n

\* a slip that takes a code for expired at its expiry time
StatusExpiredAtExpiry(row, t) == row.expiresAt <= t

\* pairing.ts 75: row.expiresAt < now
StatusExpired(row, t) == row.expiresAt < t

\* GET /pairing/status up to its select (lines 59-67): now is taken first
StatusStart(user) ==
    /\ InFlight < MaxInFlight
    /\ statuses' = statuses (+) SetToBag({[userId |-> user, at |-> now]})
    /\ UNCHANGED <<now, pairingCode, nextId, claimAttempts, apiKeys, creates,
                   claims, claimedCodes, passes, claimedBy>>
    /\ PAnswer([NoPLast EXCEPT !.op = "status", !.out = "select", !.user = user])

\* GET /pairing/status from the rows of its select to its answer (lines
\* 63-79); limit(1) returns any one row of the user
StatusAnswer(q) ==
    LET rows == {r \in pairingCode : r.userId = q.userId}
        seen == [NoPLast EXCEPT !.op = "answer", !.user = q.userId]
    IN
    /\ BagIn(q, statuses)
    /\ statuses' = statuses (-) SetToBag({q})
    /\ UNCHANGED <<now, pairingCode, nextId, claimAttempts, apiKeys, creates,
                   claims, claimedCodes, passes, claimedBy>>
    /\ IF rows = {}
       THEN PAnswer([seen EXCEPT !.out = "paired"])
       ELSE \E r \in rows :
            PAnswer([seen EXCEPT
                        !.hasRow = TRUE,
                        !.rowPast = (r.expiresAt < q.at),
                        !.out = IF StatusExpired(r, q.at)
                                THEN "expired" ELSE "waiting"])

\* what a pairing step other than the end of a claim leaves alone
pairFrame == <<notPairing, statuses, claimedBy>>

\* the steps of the pairing routes, with n create requests at most
PairingStep(n) ==
    \/ Tick(PairingTickMs, MaxTicks) /\ UNCHANGED pairFrame
    \/ CleanupStale /\ UNCHANGED pairFrame
    \/ \E u \in Users :
          CreateBudget(n) /\ CreateDelete(u) /\ UNCHANGED pairFrame
    \/ \E q \in BagToSet(creates), code \in Codes :
          CreateInsert(q, code) /\ UNCHANGED pairFrame
    \/ \E ip \in {"10.0.0.1"} :
          ClaimBudget(ip, MaxClaims) /\ ClaimStart(ip) /\ UNCHANGED pairFrame
    \/ \E q \in BagToSet(claims), input \in ClaimInputs :
          ClaimLookup(q, input) /\ UNCHANGED pairFrame
    \/ \E q \in BagToSet(claims) : ClaimIssue(q) /\ UNCHANGED pairFrame
    \/ \E q \in BagToSet(claims) : ClaimDelete(q) /\ UNCHANGED <<notPairing, statuses>>

NextPairing == PairingStep(MaxCreates)

NextCreate == PairingStep(MaxUserCreates)

\* the steps of the pairing routes and of GET /pairing/status; a claim
\* request runs to its end before the next is received
NextStatus ==
    \/ Tick(PairingTickMs, MaxStatusTicks) /\ UNCHANGED pairFrame
    \/ \E u \in Users :
          CreateBudget(MaxCreates) /\ CreateDelete(u) /\ UNCHANGED pairFrame
    \/ \E q \in BagToSet(creates), code \in Codes :
          CreateInsert(q, code) /\ UNCHANGED pairFrame
    \/ \E ip \in {"10.0.0.1"} :
          /\ ClaimBudget(ip, MaxClaims)
          /\ claims = EmptyBag
          /\ ClaimStart(ip)
          /\ UNCHANGED pairFrame
    \/ \E q \in BagToSet(claims), input \in Codes :
          ClaimLookup(q, input) /\ UNCHANGED pairFrame
    \/ \E q \in BagToSet(claims) : ClaimIssue(q) /\ UNCHANGED pairFrame
    \/ \E q \in BagToSet(claims) : ClaimDelete(q) /\ UNCHANGED <<notPairing, statuses>>
    \/ \E u \in Users :
          /\ BagCardinality(statuses) < MaxStatuses
          /\ StatusStart(u)
          /\ UNCHANGED notPairing
    \/ \E q \in BagToSet(statuses) : StatusAnswer(q) /\ UNCHANGED notPairing

\* SpecRate starts with a pairing code that user "u1" has just created
InitRate ==
    /\ now = 0
    /\ pairingCode = {[id |-> 1, code |-> "111111", userId |-> "u1",
                       expiresAt |-> CodeTtlMs, createdAt |-> 0]}
    /\ nextId = 1
    /\ claimAttempts = EmptyMap
    /\ apiKeys = EmptyMap
    /\ creates = EmptyBag
    /\ claims = EmptyBag
    /\ claimedCodes = {}
    /\ passes = [ip \in IPs |-> <<>>]
    /\ plast = NoPLast
    /\ statuses = EmptyBag
    /\ claimedBy = {}

\* in SpecRate a claim request runs to its end before the next is received
NextRate ==
    \/ Tick(RateTickMs, MaxRateTicks) /\ UNCHANGED pairFrame
    \/ CleanupStale /\ UNCHANGED pairFrame
    \/ \E ip \in IPs :
          /\ ClaimBudget(ip, MaxRateClaims)
          /\ claims = EmptyBag
          /\ ClaimStart(ip)
          /\ UNCHANGED pairFrame
    \/ \E q \in BagToSet(claims), input \in {"12345x", "111111"} :
          ClaimLookup(q, input) /\ UNCHANGED pairFrame
    \/ \E q \in BagToSet(claims) : ClaimIssue(q) /\ UNCHANGED pairFrame
    \/ \E q \in BagToSet(claims) : ClaimDelete(q) /\ UNCHANGED <<notPairing, statuses>>

(***************************************************************************)
(* Voice sessions (server/src/ws/voice.ts).  A VoiceSession object lives   *)
(* on in the closures that hold it after the map has let go of it, so the  *)
(* model keeps every object; its index in vsess is its identity.           *)
(***************************************************************************)
\* what a voice handler saw and did: the session it worked on, whether the
\* device had a session in the map, the bytes and the offset it read,
\* whether a transcription was started, what transcribeAudio did, the
\* message sent to the device and its text ("T" is the transcription),
\* whether the session had been cancelled before, the partial transcripts
\* sent before voice_send was called, and whether program state changed
NoVLast ==
    [op |-> "none", sid |-> 0, active |-> FALSE, bytes |-> 0, offset |-> 0,
     started |-> FALSE, outcome |-> "none", emitted |-> "none", text |-> "",
     cancelled |-> FALSE, before |-> 0, spread |-> FALSE, touched |-> FALSE]

\* the fields of the VoiceSession objects (voice.ts 6-11)
SessionFields(ss) ==
    [i \in DOMAIN ss |->
        [chunks |-> ss[i].chunks,
         totalBytes |-> ss[i].totalBytes,
         lastPartialOffset |-> ss[i].lastPartialOffset,
         timer |-> ss[i].timer]]

VAnswer(a) ==
    vlast' = [a EXCEPT !.touched =
                 \/ voiceSessions' # voiceSessions
                 \/ SessionFields(vsess') # SessionFields(vsess)
                 \/ partials' # partials
                 \/ sends' # sends]

InitVoice ==
    /\ voiceSessions = EmptyMap
    /\ vsess = <<>>
    /\ partials = EmptyBag
    /\ sends = EmptyBag
    /\ vlast = NoVLast

\* voice.ts 41-46 and 51: a new session with its timer running; nPartial
\* counts the partial transcripts sent and nFinal the final ones, ticked
\* tells that the timer fired after the first chunk, spread that a chunk came
\* after that, cancelled that voice_cancel ended the session; chunks holds
\* the length of each buffered chunk and partialBytes the length of the
\* audio given to the last partial transcription that returned
NewSession(d) ==
    [dev |-> d, chunks |-> <<>>, totalBytes |-> 0, lastPartialOffset |-> 0,
     timer |-> TRUE, nPartial |-> 0, nFinal |-> 0, partialBytes |-> 0,
     ticked |-> FALSE, spread |-> FALSE, cancelled |-> FALSE]

\* cleanupSession (voice.ts 144-152): the session objects after it
cleanupSession(d) ==
    IF MapHas(voiceSessions, d)
    THEN [vsess EXCEPT ![voiceSessions[d]].timer = FALSE]
    ELSE vsess

\* concatChunks (voice.ts 137-139): the length of the audio it returns
RECURSIVE concatChunks(_)
concatChunks(chunks) ==
    IF chunks = <<>> THEN 0
    ELSE chunks[1] + concatChunks(Tail(chunks))

\* transcribeAudio calls in progress
VoiceFlight == BagCardinality(partials) + BagCardinality(sends)

\* handleVoiceStart (voice.ts 33-68)
handleVoiceStart(d) ==
    LET sid == Len(vsess) + 1 IN
    /\ vsess' = Append(cleanupSession(d), NewSession(d))
    /\ voiceSessions' = MapSet(MapDelete(voiceSessions, d), d, sid)
    /\ UNCHANGED <<partials, sends>>
    /\ VAnswer([NoVLast EXCEPT !.op = "start", !.sid = sid,
                               !.active = MapHas(voiceSessions, d)])

\* handleVoiceChunk (voice.ts 73-83)
handleVoiceChunk(d, b) ==
    IF ~MapHas(voiceSessions, d)
    THEN /\ UNCHANGED <<voiceSessions, vsess, partials, sends>>
         /\ VAnswer([NoVLast EXCEPT !.op = "chunk"])
    ELSE LET sid == voiceSessions[d] IN
         /\ vsess[sid].totalBytes + b <= MaxVoiceBytes
         /\ vsess' = [vsess EXCEPT ![sid].chunks = Append(@, b),
                                   ![sid].totalBytes = @ + b,
                                   ![sid].spread = @ \/ vsess[sid].ticked]
         /\ UNCHANGED <<voiceSessions, partials, sends>>
         /\ VAnswer([NoVLast EXCEPT !.op = "chunk", !.sid = sid,
                                    !.active = TRUE,
                                    !.bytes = vsess[sid].totalBytes + b])

\* a slip that transcribes before the minimum is reached
TickDueWithoutMinimum(s) ==
    s.totalBytes > s.lastPartialOffset

\* voice.ts 53-54: the timer callback goes on to transcribe
TickDue(s) ==
    /\ ~(s.totalBytes <= s.lastPartialOffset)
    /\ ~(s.totalBytes < MIN_AUDIO_BYTES)

\* the timer callback up to transcribeAudio (voice.ts 51-58)
PartialTick(sid, flight) ==
    /\ sid \in DOMAIN vsess
    /\ vsess[sid].timer
    /\ IF TickDue(vsess[sid])
       THEN /\ VoiceFlight < flight
            /\ partials' = partials (+) SetToBag({[sid |-> sid,
                                bytes |-> concatChunks(vsess[sid].chunks)]})
       ELSE UNCHANGED partials
    /\ vsess' = [vsess EXCEPT ![sid].ticked = @ \/ vsess[sid].totalBytes > 0]
    /\ UNCHANGED <<voiceSessions, sends>>
    /\ VAnswer([NoVLast EXCEPT !.op = "tick", !.sid = sid,
                               !.active = TRUE,
                               !.bytes = vsess[sid].totalBytes,
                               !.offset = vsess[sid].lastPartialOffset,
                               !.started = (partials' # partials)])

\* a slip that moves the offset when transcribeAudio threw as well
PartialOffsetOnFailureToo(s, outcome) ==
    s.totalBytes

\* voice.ts 58-59 and 64: lastPartialOffset after transcribeAudio; a throw
\* skips the assignment
PartialOffset(s, outcome) ==
    IF outcome = "error" THEN s.lastPartialOffset ELSE s.totalBytes

\* the timer callback after transcribeAudio (voice.ts 58-66)
PartialDone(q, outcome) ==
    /\ BagIn(q, partials)
    /\ partials' = partials (-) SetToBag({q})
    /\ vsess' = [vsess EXCEPT
                    ![q.sid].lastPartialOffset =
                        PartialOffset(vsess[q.sid], outcome),
                    ![q.sid].partialBytes =
                        IF outcome = "error" THEN @ ELSE q.bytes,
                    ![q.sid].nPartial =
                        IF outcome = "text" THEN @ + 1 ELSE @]
    /\ UNCHANGED <<voiceSessions, sends>>
    /\ VAnswer([NoVLast EXCEPT
                   !.op = "partial", !.sid = q.sid, !.bytes = q.bytes,
                   !.outcome = outcome,
                   !.emitted = IF outcome = "text" THEN "partial" ELSE "none",
                   !.text = IF outcome = "text" THEN "T" ELSE "",
                   !.cancelled = vsess[q.sid].cancelled])

\* a slip that skips a buffer of exactly the minimum
SendTranscribesAboveMinimum(s) ==
    s.totalBytes > MIN_AUDIO_BYTES

\* voice.ts 102: the final transcription is run
SendTranscribes(s) ==
    s.totalBytes >= MIN_AUDIO_BYTES

\* handleVoiceSend up to transcribeAudio, or to its end when the buffer is
\* below the minimum (voice.ts 89-123)
handleVoiceSend(d, flight) ==
    IF ~MapHas(voiceSessions, d)
    THEN /\ UNCHANGED <<voiceSessions, vsess, partials, sends>>
         /\ VAnswer([NoVLast EXCEPT !.op = "send"])
    ELSE LET sid == voiceSessions[d]
             s == vsess[sid]
         IN
         /\ vsess' = [vsess EXCEPT
                         ![sid].timer = FALSE,
                         ![sid].nFinal =
                             IF SendTranscribes(s) THEN @ ELSE @ + 1]
         /\ UNCHANGED partials
         /\ IF SendTranscribes(s)
            THEN /\ VoiceFlight < flight
                 /\ sends' = sends (+) SetToBag({[sid |-> sid, dev |-> d,
                                 bytes |-> concatChunks(s.chunks),
                                 before |-> s.nPartial]})
                 /\ UNCHANGED voiceSessions
                 /\ VAnswer([NoVLast EXCEPT !.op = "send", !.sid = sid,
                                !.active = TRUE, !.bytes = s.totalBytes,
                                !.before = s.nPartial, !.spread = s.spread])
            ELSE /\ UNCHANGED sends
                 /\ voiceSessions' = MapDelete(voiceSessions, d)
                 /\ VAnswer([NoVLast EXCEPT !.op = "sent", !.sid = sid,
                                !.active = TRUE, !.bytes = s.totalBytes,
                                !.emitted = "final", !.text = "",
                                !.before = s.nPartial, !.spread = s.spread])

\* handleVoiceSend after transcribeAudio (voice.ts 111-122)
FinalDone(q, outcome) ==
    /\ BagIn(q, sends)
    /\ sends' = sends (-) SetToBag({q})
    /\ voiceSessions' = MapDelete(voiceSessions, q.dev)
    /\ vsess' = [vsess EXCEPT ![q.sid].nFinal = @ + 1]
    /\ UNCHANGED partials
    /\ VAnswer([NoVLast EXCEPT
                   !.op = "sent", !.sid = q.sid, !.active = TRUE,
                   !.bytes = q.bytes, !.outcome = outcome,
                   !.emitted = "final",
                   !.text = IF outcome = "text" THEN "T" ELSE "",
                   !.cancelled = vsess[q.sid].cancelled,
                   !.before = q.before, !.spread = vsess[q.sid].spread])

\* handleVoiceCancel (voice.ts 128-130)
handleVoiceCancel(d) ==
    IF ~MapHas(voiceSessions, d)
    THEN /\ UNCHANGED <<voiceSessions, vsess, partials, sends>>
         /\ VAnswer([NoVLast EXCEPT !.op = "cancel"])
    ELSE LET sid == voiceSessions[d] IN
         /\ vsess' = [cleanupSession(d) EXCEPT ![sid].cancelled = TRUE]
         /\ voiceSessions' = MapDelete(voiceSessions, d)
         /\ UNCHANGED <<partials, sends>>
         /\ VAnswer([NoVLast EXCEPT !.op = "cancel", !.sid = sid,
                                    !.active = TRUE,
                                    !.bytes = vsess[sid].totalBytes])

\* the steps of the voice handlers, with n sessions at most, chunks of the
\* given sizes and at most flight calls of transcribeAudio in progress
VoiceStep(n, sizes, flight) ==
    \/ \E d \in VoiceDevices :
          Len(vsess) < n /\ handleVoiceStart(d) /\ UNCHANGED notVoice
    \/ \E d \in VoiceDevices, b \in sizes :
          handleVoiceChunk(d, b) /\ UNCHANGED notVoice
    \/ \E sid \in 1..n : PartialTick(sid, flight) /\ UNCHANGED notVoice
    \/ \E q \in BagToSet(partials), o \in Outcomes :
          PartialDone(q, o) /\ UNCHANGED notVoice
    \/ \E d \in VoiceDevices : handleVoiceSend(d, flight) /\ UNCHANGED notVoice
    \/ \E q \in BagToSet(sends), o \in Outcomes :
          FinalDone(q, o) /\ UNCHANGED notVoice
    \/ \E d \in VoiceDevices : handleVoiceCancel(d) /\ UNCHANGED notVoice

NextVoice == VoiceStep(MaxVoiceSessions, ChunkBytes, MaxVoiceFlight)

NextVoiceRestart ==
    VoiceStep(MaxVoiceRestarts, RestartChunkBytes, MaxVoiceFlight)

\* a partial transcription and a voice_send, or two voice_send, in progress
\* together
NextVoiceOverlap ==
    VoiceStep(MaxVoiceSessions, RestartChunkBytes, MaxVoiceOverlap)

(***************************************************************************)
(* The agent loop.  States: Idle -> Observing -> Deciding -> Executing ->  *)
(* Evaluating -> {Observing | Completed | Failed | Cancelled}.             *)
(***************************************************************************)
InitLoop ==
    /\ phase = "Idle"
    /\ sessionStatus = "queued"
    /\ stepsUsed = 0
    /\ hashes = <<>>
    /\ lastHash = "none"
    /\ sameCount = 0
    /\ stuck = FALSE
    /\ cancelSignal = FALSE
    /\ decision = "none"
    /\ reason = "none"

\* the loop ends with a terminal status and a recorded reason
Finish(st, why) ==
    /\ phase' = st
    /\ sessionStatus' = (CASE st = "Completed" -> "completed"
                           [] st = "Failed" -> "failed"
                           [] OTHER -> "cancelled")
    /\ reason' = why

\* a slip that keeps counting over a changed screen
CountSameKeepsCounting(prev, h, n) ==
    n + 1

\* consecutive steps with hash h, after a run of n steps with hash prev
CountSame(prev, h, n) ==
    IF h = prev THEN n + 1 ELSE 1

\* a slip that allows one step more than the budget
BudgetExhaustedLate(n) ==
    n > maxSteps

\* the step budget is used up
BudgetExhausted(n) ==
    n >= maxSteps

\* goal accepted: the loop starts
LoopStart ==
    /\ phase = "Idle"
    /\ phase' = "Observing"
    /\ sessionStatus' = "running"
    /\ UNCHANGED <<stepsUsed, hashes, lastHash, sameCount, stuck,
                   cancelSignal, decision, reason>>

\* Observing: a cancelled loop issues no new command; otherwise the screen
\* is read and hashed, or the transport fails for good
Observe(h, ok) ==
    /\ phase = "Observing"
    /\ IF cancelSignal
       THEN /\ Finish("Cancelled", "cancelled")
            /\ UNCHANGED <<hashes, lastHash, sameCount>>
       ELSE IF ~ok
       THEN /\ Finish("Failed", "transport error")
            /\ UNCHANGED <<hashes, lastHash, sameCount>>
       ELSE /\ phase' = "Deciding"
            /\ hashes' = Append(hashes, h)
            /\ sameCount' = CountSame(lastHash, h, sameCount)
            /\ lastHash' = h
            /\ UNCHANGED <<sessionStatus, reason>>
    /\ UNCHANGED <<stepsUsed, stuck, cancelSignal, decision>>

\* Deciding: the reasoning service answers with an action, with done, or
\* fails
Decide(d) ==
    /\ phase = "Deciding"
    /\ IF d = "error"
       THEN Finish("Failed", "reasoning error") /\ UNCHANGED decision
       ELSE /\ phase' = "Executing"
            /\ decision' = d
            /\ UNCHANGED <<sessionStatus, reason>>
    /\ UNCHANGED <<stepsUsed, hashes, lastHash, sameCount, stuck,
                   cancelSignal>>

\* Executing: the action runs on the device; a failed or timed-out command
\* is a failed step, an unrecoverable transport error ends the loop
Execute(ok) ==
    /\ phase = "Executing"
    /\ IF ok \/ decision = "done"
       THEN phase' = "Evaluating" /\ UNCHANGED <<sessionStatus, reason>>
       ELSE Finish("Failed", "transport error")
    /\ UNCHANGED <<stepsUsed, hashes, lastHash, sameCount, stuck,
                   cancelSignal, decision>>

\* Evaluating: the step is appended, stagnation is checked, and the loop
\* goes on or ends
Evaluate ==
    /\ phase = "Evaluating"
    /\ stepsUsed' = stepsUsed + 1
    /\ stuck' = (sameCount >= stuckThreshold)
    /\ IF decision = "done"
       THEN Finish("Completed", "done")
       ELSE IF cancelSignal
       THEN Finish("Cancelled", "cancelled")
       ELSE IF BudgetExhausted(stepsUsed + 1)
       THEN Finish("Failed", "step budget exhausted")
       ELSE phase' = "Observing" /\ UNCHANGED <<sessionStatus, reason>>
    /\ UNCHANGED <<hashes, lastHash, sameCount, cancelSignal, decision>>

\* the stop interface signals cancellation to the running session
StopSignal ==
    /\ sessionStatus = "running"
    /\ ~cancelSignal
    /\ cancelSignal' = TRUE
    /\ UNCHANGED <<phase, sessionStatus, stepsUsed, hashes, lastHash,
                   sameCount, stuck, decision, reason>>

\* the steps the loop task takes itself
LoopStep ==
    \/ LoopStart /\ UNCHANGED notLoop
    \/ \E h \in ScreenHashes, ok \in BOOLEAN :
          Observe(h, ok) /\ UNCHANGED notLoop
    \/ \E d \in {"act", "done", "error"} : Decide(d) /\ UNCHANGED notLoop
    \/ \E ok \in BOOLEAN : Execute(ok) /\ UNCHANGED notLoop
    \/ Evaluate /\ UNCHANGED notLoop

NextLoop ==
    \/ LoopStep
    \/ StopSignal /\ UNCHANGED notLoop

(***************************************************************************)
(* Request correlation: one pending waiter per request identifier.         *)
(***************************************************************************)
RequestIds == 1..MaxCommands
\* an identifier no command ever carried
StrayId == 0

\* what a correlation step did: the identifier it was about, the waiters
\* pending before it, the waiters whose state it changed, and whether the
\* device session was up before and after it
NoRLast ==
    [op |-> "none", id |-> 0, before |-> {}, changed |-> {},
     wasUp |-> TRUE, isUp |-> TRUE]

RAnswer(a) ==
    rlast' = [a EXCEPT
                 !.before = pending,
                 !.changed = {i \in RequestIds :
                                 \/ (i \in pending) # (i \in pending')
                                 \/ settled'[i] # settled[i]},
                 !.wasUp = linkUp,
                 !.isUp = linkUp']

InitRouter ==
    /\ pending = {}
    /\ settled = [i \in RequestIds |-> [state |-> "none", by |-> 0]]
    /\ atDevice = {}
    /\ wire = {}
    /\ nextRequest = 0
    /\ linkUp = TRUE
    /\ rlast = NoRLast

Oldest(ids) == CHOOSE i \in ids : \A j \in ids : i <= j

\* a slip that hands a result to the waiter that has waited longest
MatchOldest(r, waiting) ==
    IF waiting = {} THEN {} ELSE {Oldest(waiting)}

\* the waiter a result resolves: the one of the identifier it echoes
MatchWaiter(r, waiting) ==
    IF r.requestId \in waiting THEN {r.requestId} ELSE {}

\* a command goes out with a fresh identifier and a waiter with a timeout
SendCommand ==
    /\ linkUp
    /\ nextRequest < MaxCommands
    /\ nextRequest' = nextRequest + 1
    /\ pending' = pending \cup {nextRequest + 1}
    /\ atDevice' = atDevice \cup {nextRequest + 1}
    /\ UNCHANGED <<settled, wire, linkUp>>
    /\ RAnswer([NoRLast EXCEPT !.op = "send", !.id = nextRequest + 1])

\* the device answers a command; its response echoes the requestId
DeviceResult(id) ==
    /\ linkUp
    /\ id \in atDevice
    /\ atDevice' = atDevice \ {id}
    /\ wire' = wire \cup {[requestId |-> id]}
    /\ UNCHANGED <<pending, settled, nextRequest, linkUp>>
    /\ RAnswer([NoRLast EXCEPT !.op = "device", !.id = id])

\* a result with an identifier that matches no command reaches the wire
StrayResult ==
    /\ linkUp
    /\ [requestId |-> StrayId] \notin wire
    /\ wire' = wire \cup {[requestId |-> StrayId]}
    /\ UNCHANGED <<pending, settled, atDevice, nextRequest, linkUp>>
    /\ RAnswer([NoRLast EXCEPT !.op = "stray", !.id = StrayId])

\* a tagged result arrives: the matching waiter is resolved, an unmatched
\* or late result is logged and discarded
ReceiveResult(r) ==
    /\ r \in wire
    /\ wire' = wire \ {r}
    /\ LET hit == MatchWaiter(r, pending) IN
       /\ pending' = pending \ hit
       /\ settled' = [i \in RequestIds |->
                         IF i \in hit
                         THEN [state |-> "resolved", by |-> r.requestId]
                         ELSE settled[i]]
    /\ UNCHANGED <<atDevice, nextRequest, linkUp>>
    /\ RAnswer([NoRLast EXCEPT !.op = "result", !.id = r.requestId])

\* the timeout of a waiter fires: the waiter fails
WaiterTimeout(id) ==
    /\ id \in pending
    /\ pending' = pending \ {id}
    /\ settled' = [settled EXCEPT ![id] = [state |-> "failed", by |-> 0]]
    /\ UNCHANGED <<atDevice, wire, nextRequest, linkUp>>
    /\ RAnswer([NoRLast EXCEPT !.op = "timeout", !.id = id])

\* the device disconnects: the session is torn down, pending waiters fail
Disconnect ==
    /\ linkUp
    /\ linkUp' = FALSE
    /\ pending' = {}
    /\ settled' = [i \in RequestIds |->
                      IF i \in pending
                      THEN [state |-> "failed", by |-> 0]
                      ELSE settled[i]]
    /\ atDevice' = {}
    /\ wire' = {}
    /\ UNCHANGED nextRequest
    /\ RAnswer([NoRLast EXCEPT !.op = "disconnect"])

NextRouter ==
    \/ SendCommand /\ UNCHANGED notRouter
    \/ \E id \in RequestIds : DeviceResult(id) /\ UNCHANGED notRouter
    \/ StrayResult /\ UNCHANGED notRouter
    \/ \E r \in wire : ReceiveResult(r) /\ UNCHANGED notRouter
    \/ \E id \in RequestIds : WaiterTimeout(id) /\ UNCHANGED notRouter
    \/ Disconnect /\ UNCHANGED notRouter

(***************************************************************************)
(* The reliable transport of the device: reconnection with exponential     *)
(* backoff and the queue of outbound messages.                             *)
(***************************************************************************)
InitWs ==
    /\ wsState = "Connected"
    /\ backoffMs = InitialBackoffMs
    /\ failures = 0
    /\ lastWaitMs = 0
    /\ outbound = <<>>
    /\ delivered = <<>>
    /\ submitted = <<>>
    /\ lastFlush = <<>>

\* a slip that doubles without the cap
NextBackoffUncapped(ms) ==
    2 * ms

\* the wait after one more failed attempt: doubled, up to the cap
NextBackoff(ms) ==
    IF 2 * ms > MaxBackoffMs THEN MaxBackoffMs ELSE 2 * ms

\* a slip that sends the newest buffered message first
FlushNewestFirst(q) ==
    [i \in 1..Len(q) |-> q[Len(q) + 1 - i]]

\* the buffered messages in the order they are written after authentication
Flush(q) ==
    q

\* the connection is lost unexpectedly
ConnectionLost ==
    /\ wsState = "Connected"
    /\ wsState' = "Waiting"
    /\ failures' = 0
    /\ UNCHANGED <<backoffMs, lastWaitMs, outbound, delivered, submitted,
                   lastFlush>>

\* the backoff has run: a reconnection attempt starts
Reconnect ==
    /\ wsState = "Waiting"
    /\ wsState' = "Connecting"
    /\ lastWaitMs' = backoffMs
    /\ UNCHANGED <<backoffMs, failures, outbound, delivered, submitted,
                   lastFlush>>

\* the attempt fails (no connection, or auth_error): the wait doubles
ReconnectFailed ==
    /\ wsState = "Connecting"
    /\ failures < MaxReconnects
    /\ wsState' = "Waiting"
    /\ failures' = failures + 1
    /\ backoffMs' = NextBackoff(backoffMs)
    /\ UNCHANGED <<lastWaitMs, outbound, delivered, submitted, lastFlush>>

\* auth_ok: the backoff is reset and the buffered messages are sent
AuthOk ==
    /\ wsState = "Connecting"
    /\ wsState' = "Connected"
    /\ backoffMs' = InitialBackoffMs
    /\ delivered' = delivered \o Flush(outbound)
    /\ outbound' = <<>>
    /\ lastFlush' = outbound
    /\ UNCHANGED <<failures, lastWaitMs, submitted>>

\* the device submits an outbound message: sent when connected, buffered
\* when not
Submit ==
    /\ Len(submitted) < MaxMessages
    /\ LET m == Len(submitted) + 1 IN
       /\ submitted' = Append(submitted, m)
       /\ IF wsState = "Connected"
          THEN delivered' = Append(delivered, m) /\ UNCHANGED outbound
          ELSE outbound' = Append(outbound, m) /\ UNCHANGED delivered
    /\ UNCHANGED <<wsState, backoffMs, failures, lastWaitMs, lastFlush>>

NextWs ==
    \/ ConnectionLost /\ UNCHANGED notWs
    \/ Reconnect /\ UNCHANGED notWs
    \/ ReconnectFailed /\ UNCHANGED notWs
    \/ AuthOk /\ UNCHANGED notWs
    \/ Submit /\ UNCHANGED notWs

(***************************************************************************)
(* Skills (skills.ts).  A string is the sequence of its characters, so     *)
(* that toLowerCase, includes and the regular expressions are computed.    *)
(***************************************************************************)
Uppers == <<"A", "B", "C", "D", "E", "F", "G", "H", "I", "J", "K", "L", "M",
            "N", "O", "P", "Q", "R", "S", "T", "U", "V", "W", "X", "Y", "Z">>
Lowers == <<"a", "b", "c", "d", "e", "f", "g", "h", "i", "j", "k", "l", "m",
            "n", "o", "p", "q", "r", "s", "t", "u", "v", "w", "x", "y", "z">>

\* the lower-case form of a character
LowerChar(c) ==
    IF \E k \in 1..26 : Uppers[k] = c
    THEN Lowers[CHOOSE k \in 1..26 : Uppers[k] = c]
    ELSE c

\* String.prototype.toLowerCase
RECURSIVE toLowerCase(_)
toLowerCase(str) ==
    IF str = <<>> THEN <<>>
    ELSE <<LowerChar(Head(str))>> \o toLowerCase(Tail(str))

\* str has sub at position i (1-based)
HasAt(str, sub, i) ==
    /\ i >= 1
    /\ i + Len(sub) - 1 <= Len(str)
    /\ \A j \in 1..Len(sub) : str[i + j - 1] = sub[j]

\* String.prototype.includes
includes(str, sub) ==
    \E i \in 1..(Len(str) + 1) : HasAt(str, sub, i)

\* an optional text field of a decision that is not given
Undefined == <<"undefined">>

\* a decision without a skill, or without an action
Unnamed == "undefined"

\* a UIElement without text, flags or position; the screens are built on it
BlankElement ==
    [text |-> <<>>, id |-> <<>>, hint |-> <<>>, enabled |-> FALSE,
     clickable |-> FALSE, longClickable |-> FALSE, editable |-> FALSE,
     selected |-> FALSE, checked |-> FALSE, action |-> "read",
     center |-> <<0, 0>>, size |-> <<0, 0>>]

\* an ActionDecision
Decision(skill, action, query, text) ==
    [skill |-> skill, action |-> action, query |-> query, text |-> text]

\* no call has returned yet
NoResult == [success |-> FALSE, message |-> "none", data |-> <<>>]

ActionResult(ok, message, data) ==
    [success |-> ok, message |-> message, data |-> data]

\* the arguments and loop variables of a call: the decision, the elements
\* passed in, the loop counter and the texts collected so far
NoDecision == Decision(Unnamed, "none", Undefined, Undefined)

\* the null of a count (skills.ts 528): no count is negative
NoCount == -1

\* the null of lastCommentLikeAttempt (skills.ts 517): no ordinal is 0
NoAttempt == [index |-> 0, x |-> 0, y |-> 0, countBefore |-> NoCount]

NoLocals ==
    [dec |-> NoDecision, elements |-> <<>>, i |-> 0, seen |-> <<>>,
     index |-> 0]

Locals(dec, elements) ==
    [NoLocals EXCEPT !.dec = dec, !.elements = elements]

InitSkills ==
    /\ skillPc = "idle"
    /\ locals = NoLocals
    /\ cmds = <<>>
    /\ rescans = <<>>
    /\ result = NoResult
    /\ returned = 0
    /\ lastCommentLikeAttempt = NoAttempt
    /\ likeLog = EmptyMap

\* runAdbCommand(["shell", "input", "tap", x, y])
Tap(center) == [kind |-> "tap", at |-> center]
\* runAdbCommand(["shell", "input", "swipe", ...upCoords, SWIPE_DURATION_MS])
Swipe == [kind |-> "swipe", at |-> <<0, 0>>]
\* any other command that acts on the device (clipboard, intent, key event)
Other(kind) == [kind |-> kind, at |-> <<0, 0>>]

\* the call returns r after the commands c and the re-observations obs,
\* with the loop variables l
Return(l, c, obs, r) ==
    /\ skillPc' = "idle"
    /\ locals' = l
    /\ cmds' = c
    /\ rescans' = obs
    /\ result' = r
    /\ returned' = (IF skillPc = "idle" THEN 1 ELSE returned + 1)

\* the call goes into the loop of a skill
Enter(skill, l) ==
    /\ skillPc' = skill
    /\ locals' = l
    /\ cmds' = <<>>
    /\ rescans' = <<>>
    /\ returned' = 0
    /\ UNCHANGED result

\* the indices of a list that satisfy a test, and the first and last of them
First(set) == CHOOSE i \in set : \A j \in set : i <= j

\* the texts of a list of elements, in order (els.map((el) => el.text))
Texts(els) == [i \in DOMAIN els |-> els[i].text]

\* the members of a list of texts that are non-empty and not in a set
RECURSIVE NewTexts(_, _)
NewTexts(texts, known) ==
    IF texts = <<>> THEN <<>>
    ELSE LET t == Head(texts)
         IN IF t # <<>> /\ t \notin known
            THEN <<t>> \o NewTexts(Tail(texts), known)
            ELSE NewTexts(Tail(texts), known)

\* Array.prototype.slice(0, n)
Take(seq, n) == SubSeq(seq, 1, IF Len(seq) < n THEN Len(seq) ELSE n)

\* a value that JavaScript takes for true in a condition: a string that is
\* given and not empty
Truthy(str) == str # Undefined /\ str # <<>>

\* the order of Array.prototype.sort on keys <<k1, k2, index>>: the index
\* as last key makes the sort stable
LexLess(a, b) ==
    \/ a[1] < b[1]
    \/ /\ a[1] = b[1]
       /\ \/ a[2] < b[2]
          \/ a[2] = b[2] /\ a[3] < b[3]

RECURSIVE SortKeys(_)
SortKeys(keys) ==
    IF keys = {} THEN <<>>
    ELSE LET m == CHOOSE a \in keys : \A b \in keys : a = b \/ LexLess(a, b)
         IN <<m>> \o SortKeys(keys \ {m})

\* the indices in a set, sorted by the vertical position of their elements
SortByY(els, set) ==
    LET sorted == SortKeys({<<els[i].center[2], 0, i>> : i \in set})
    IN [k \in DOMAIN sorted |-> sorted[k][3]]

\* the set of the members of a list
Range(seq) == {seq[i] : i \in DOMAIN seq}

\* the elements of a list that satisfy a test, as the set of their indices
\* (Array.prototype.filter keeps their order)
Filter(els, Test(_)) == {i \in DOMAIN els : Test(els[i])}

(***************************************************************************)
(* Skill 0: read_screen                                                    *)
(***************************************************************************)
\* skills.ts 107
readMaxScrolls == 5

\* collectTexts (skills.ts 89-99): allTexts after the elements are collected
RECURSIVE collectTexts(_, _)
collectTexts(allTexts, texts) ==
    IF texts = <<>> THEN allTexts
    ELSE LET t == Head(texts)
         IN IF t # <<>> /\ t \notin Range(allTexts)
            THEN collectTexts(Append(allTexts, t), Tail(texts))
            ELSE collectTexts(allTexts, Tail(texts))

\* readScreen (skills.ts 85-108) up to the first scroll
readScreen(dec, elements) ==
    Enter("read_screen",
          [Locals(dec, elements) EXCEPT
              !.seen = collectTexts(<<>>, Texts(elements))])

\* one pass of the scroll loop of readScreen (skills.ts 110-125), and the
\* rest of the function when the loop ends (127-138); data stands for the
\* texts joined by newlines
readScreenScroll(newElements) ==
    LET allTexts == collectTexts(locals.seen, Texts(newElements))
        added == Len(allTexts) - Len(locals.seen)
        scrolled == Append(cmds, Swipe)
        seenNow == Append(rescans, newElements)
        l == [locals EXCEPT !.i = locals.i + 1, !.seen = allTexts]
    IN /\ skillPc = "read_screen"
       /\ IF added = 0 \/ ~(locals.i + 1 < readMaxScrolls)
          THEN Return(l,
                      IF allTexts # <<>>
                      THEN Append(scrolled, Other("clipboard"))
                      ELSE scrolled,
                      seenNow,
                      ActionResult(TRUE, "Read text elements", allTexts))
          ELSE /\ locals' = l
               /\ cmds' = scrolled
               /\ rescans' = seenNow
               /\ UNCHANGED <<skillPc, result, returned>>
       /\ UNCHANGED <<lastCommentLikeAttempt, likeLog>>

(***************************************************************************)
(* Skill 1: submit_message                                                 *)
(***************************************************************************)
\* SEND_BUTTON_PATTERN.test (skills.ts 145):
\* /send|submit|post|arrow|paper.?plane/i
TestSendButton(str) ==
    LET s == toLowerCase(str)
        paper == <<"p", "a", "p", "e", "r">>
        plane == <<"p", "l", "a", "n", "e">>
    IN \/ includes(s, <<"s", "e", "n", "d">>)
       \/ includes(s, <<"s", "u", "b", "m", "i", "t">>)
       \/ includes(s, <<"p", "o", "s", "t">>)
       \/ includes(s, <<"a", "r", "r", "o", "w">>)
       \/ \E i \in 1..Len(s) :
              /\ HasAt(s, paper, i)
              /\ \/ HasAt(s, plane, i + 5)
                 \/ /\ i + 5 <= Len(s)
                    /\ s[i + 5] # "\n"
                    /\ HasAt(s, plane, i + 6)

\* skills.ts 149-154
IsSendButton(el) ==
    /\ el.enabled
    /\ (el.clickable \/ el.action = "tap")
    /\ (TestSendButton(el.text) \/ TestSendButton(el.id))

\* skills.ts 160
IsEnabledClickable(el) == el.enabled /\ el.clickable

\* skills.ts 149-171: the index of candidates[0], 0 when there is none.
\* Both sorts are stable: among the send buttons the first in the list;
\* in the bottom 20% the rightmost, then the lowest, then the first
SendTarget(elements) ==
    LET byText == Filter(elements, IsSendButton)
        screenBottom == Filter(elements, IsEnabledClickable)
        maxY == CHOOSE y \in {elements[i].center[2] : i \in screenBottom} :
                    \A i \in screenBottom : elements[i].center[2] <= y
        bottom == {i \in screenBottom :
                      elements[i].center[2] * 10 >= maxY * 8}
        Before(i, j) ==
            \/ elements[i].center[1] > elements[j].center[1]
            \/ /\ elements[i].center[1] = elements[j].center[1]
               /\ \/ elements[i].center[2] > elements[j].center[2]
                  \/ /\ elements[i].center[2] = elements[j].center[2]
                     /\ i <= j
    IN IF byText # {} THEN First(byText)
       ELSE IF screenBottom = {} THEN 0
       ELSE CHOOSE i \in bottom : \A j \in bottom : Before(i, j) \/ i = j

\* submitMessage (skills.ts 147-212); data stands for the summary of the
\* first three new texts
submitMessage(dec, elements, newElements) ==
    LET target == SendTarget(elements)
        originalTexts == Range(Texts(elements)) \ {<<>>}
        newTexts == NewTexts(Texts(newElements), originalTexts)
        l == Locals(dec, elements)
    IN IF target = 0
       THEN Return(l, <<>>, <<>>,
                   ActionResult(FALSE,
                       "Could not find a Send/Submit button on screen", <<>>))
       ELSE Return(l, <<Tap(elements[target].center)>>, <<newElements>>,
                   IF newTexts # <<>>
                   THEN ActionResult(TRUE, "Tapped and new content appeared",
                                     Take(newTexts, 3))
                   ELSE ActionResult(TRUE, "Tapped. No new content yet",
                                     <<>>))

(***************************************************************************)
(* Skill 2: copy_visible_text                                              *)
(***************************************************************************)
\* skills.ts 223-244: the indices of the elements whose text is copied
CopiedElements(dec, elements) ==
    LET Wanted(el) ==
            \/ ~Truthy(dec.query)
            \/ includes(toLowerCase(el.text), toLowerCase(dec.query))
        readable == {i \in DOMAIN elements :
                        /\ elements[i].text # <<>>
                        /\ elements[i].action = "read"
                        /\ Wanted(elements[i])}
        anyText == {i \in DOMAIN elements :
                       /\ elements[i].text # <<>>
                       /\ Wanted(elements[i])}
    IN IF readable # {} THEN readable ELSE anyText

\* copyVisibleText (skills.ts 218-272); data stands for the texts joined
\* by newlines
copyVisibleText(dec, elements) ==
    LET textElements == SortByY(elements, CopiedElements(dec, elements))
        l == Locals(dec, elements)
    IN IF textElements = <<>>
       THEN Return(l, <<>>, <<>>,
                   ActionResult(FALSE,
                       IF Truthy(dec.query)
                       THEN "No text matching found on screen"
                       ELSE "No readable text found on screen", <<>>))
       ELSE Return(l, <<Other("clipboard")>>, <<>>,
                   ActionResult(TRUE, "Copied text elements to clipboard",
                       [k \in DOMAIN textElements |->
                           elements[textElements[k]].text]))

(***************************************************************************)
(* Skill 3: wait_for_content                                               *)
(***************************************************************************)
\* skills.ts 283: the number of polls
waitPolls == 5

\* skills.ts 296: newTexts.reduce((sum, t) => sum + t.length, 0)
RECURSIVE TotalChars(_)
TotalChars(texts) ==
    IF texts = <<>> THEN 0 ELSE Len(Head(texts)) + TotalChars(Tail(texts))

\* a slip that takes 20 new characters for enough
EnoughNewCharsFrom20(totalNewChars) ==
    totalNewChars >= 20

\* skills.ts 297
EnoughNewChars(totalNewChars) ==
    totalNewChars > 20

\* waitForContent (skills.ts 278-283) up to the first poll
waitForContent(dec, elements) ==
    IF 0 < waitPolls
    THEN Enter("wait_for_content", Locals(dec, elements))
    ELSE Return(Locals(dec, elements), <<>>, <<>>,
                ActionResult(FALSE, "No new content appeared after 15s",
                             <<>>))

\* one poll of waitForContent (skills.ts 283-308), and the return after the
\* last one (310-313); data stands for the summary of the first five texts
waitForContentPoll(newElements) ==
    LET originalTexts == Range(Texts(locals.elements)) \ {<<>>}
        newTexts == NewTexts(Texts(newElements), originalTexts)
        totalNewChars == TotalChars(newTexts)
        seenNow == Append(rescans, newElements)
        l == [locals EXCEPT !.i = locals.i + 1]
    IN /\ skillPc = "wait_for_content"
       /\ IF EnoughNewChars(totalNewChars)
          THEN Return(l, cmds, seenNow,
                      ActionResult(TRUE, "New content appeared",
                                   Take(newTexts, 5)))
          ELSE IF locals.i + 1 < waitPolls
          THEN /\ locals' = l
               /\ rescans' = seenNow
               /\ UNCHANGED <<skillPc, cmds, result, returned>>
          ELSE Return(l, cmds, seenNow,
                      ActionResult(FALSE, "No new content appeared after 15s",
                                   <<>>))
       /\ UNCHANGED <<lastCommentLikeAttempt, likeLog>>

(***************************************************************************)
(* Skill 5: compose_email                                                  *)
(***************************************************************************)
Digits == <<"0", "1", "2", "3", "4", "5", "6", "7", "8", "9">>

\* the class \w of a regular expression
IsWordChar(c) ==
    \/ \E k \in 1..26 : c = Uppers[k] \/ c = Lowers[k]
    \/ \E k \in 1..10 : c = Digits[k]
    \/ c = "_"

\* extractEmail (skills.ts 439-442) finds an address:
\* /[\w.+-]+@[\w.-]+\.\w{2,}/ matches somewhere in the text
extractEmail(text) ==
    \E at \in 2..Len(text) :
        /\ text[at] = "@"
        /\ IsWordChar(text[at - 1]) \/ text[at - 1] \in {".", "+", "-"}
        /\ \E dot \in (at + 2)..(Len(text) - 2) :
               /\ text[dot] = "."
               /\ \A k \in (at + 1)..(dot - 1) :
                      IsWordChar(text[k]) \/ text[k] \in {".", "-"}
               /\ IsWordChar(text[dot + 1])
               /\ IsWordChar(text[dot + 2])

\* BODY_FIELD_PATTERN.test (skills.ts 410):
\* /body|compose_area|compose_edit|message_content/i
TestBodyField(str) ==
    LET s == toLowerCase(str)
    IN \/ includes(s, <<"b", "o", "d", "y">>)
       \/ includes(s, <<"c", "o", "m", "p", "o", "s", "e", "_", "a", "r", "e", "a">>)
       \/ includes(s, <<"c", "o", "m", "p", "o", "s", "e", "_", "e", "d", "i", "t">>)
       \/ includes(s, <<"m", "e", "s", "s", "a", "g", "e", "_", "c", "o", "n", "t", "e", "n", "t">>)

\* BODY_HINT_PATTERN.test (skills.ts 415): /compose|body|message|write/i
TestBodyHint(str) ==
    LET s == toLowerCase(str)
    IN \/ includes(s, <<"c", "o", "m", "p", "o", "s", "e">>)
       \/ includes(s, <<"b", "o", "d", "y">>)
       \/ includes(s, <<"m", "e", "s", "s", "a", "g", "e">>)
       \/ includes(s, <<"w", "r", "i", "t", "e">>)

\* findEmailField (skills.ts 421-436) for the body patterns, over the
\* sorted indices of the editable fields: the index found, 0 for undefined
findEmailField(els, editables) ==
    LET byId == {k \in DOMAIN editables : TestBodyField(els[editables[k]].id)}
        byHint == {k \in DOMAIN editables :
                      /\ els[editables[k]].hint # <<>>
                      /\ TestBodyHint(els[editables[k]].hint)}
        byText == {k \in DOMAIN editables :
                      TestBodyField(els[editables[k]].text)}
    IN IF byId # {} THEN editables[First(byId)]
       ELSE IF byHint # {} THEN editables[First(byHint)]
       ELSE IF byText # {} THEN editables[First(byText)]
       ELSE 0

\* composeEmail (skills.ts 444-509)
composeEmail(dec, elements, freshElements) ==
    LET bodyContent == dec.text
        hasAddress ==
            \/ Truthy(dec.query)
            \/ Truthy(bodyContent) /\ extractEmail(bodyContent)
        editables ==
            SortByY(freshElements,
                    {i \in DOMAIN freshElements :
                        freshElements[i].editable /\ freshElements[i].enabled})
        found == findEmailField(freshElements, editables)
        bodyField == IF found # 0 THEN found ELSE editables[Len(editables)]
        l == Locals(dec, elements)
    IN IF ~hasAddress
       THEN Return(l, <<>>, <<>>,
                   ActionResult(FALSE, "compose_email requires query", <<>>))
       ELSE IF editables = <<>>
       THEN Return(l, <<Other("am start")>>, <<freshElements>>,
                   ActionResult(FALSE,
                       "Launched email compose but no editable fields appeared",
                       <<>>))
       ELSE Return(l,
                   <<Other("am start"), Tap(freshElements[bodyField].center)>>
                       \o (IF Truthy(bodyContent)
                           THEN <<Other("clipboard")>> ELSE <<>>)
                       \o <<Other("keyevent 279")>>,
                   <<freshElements>>,
                   ActionResult(TRUE, "Email compose opened, body pasted",
                                <<>>))

(***************************************************************************)
(* Skill 4: find_and_tap                                                   *)
(***************************************************************************)
\* skills.ts 359
maxScrolls == 10

\* skills.ts 324-326
Matches(elements, queryLower) ==
    {i \in DOMAIN elements :
        /\ elements[i].text # <<>>
        /\ includes(toLowerCase(elements[i].text), queryLower)}

\* a slip that gives an exact match the bonus of a partial one
MatchScoreNoExactBonus(el, queryLower) ==
    (IF el.enabled THEN 10 ELSE 0)
    + (IF el.clickable \/ el.longClickable THEN 5 ELSE 0)
    + 5

\* skills.ts 329-336
MatchScore(el, queryLower) ==
    (IF el.enabled THEN 10 ELSE 0)
    + (IF el.clickable \/ el.longClickable THEN 5 ELSE 0)
    + (IF toLowerCase(el.text) = queryLower THEN 20 ELSE 5)

\* findMatch (skills.ts 323-339): the index of the best match, 0 for null;
\* the sort is stable, so the first of the matches with the highest score
findMatch(elements, queryLower) ==
    LET matches == Matches(elements, queryLower)
        top == {i \in matches :
                   \A j \in matches :
                       MatchScore(elements[j], queryLower)
                           <= MatchScore(elements[i], queryLower)}
    IN IF matches = {} THEN 0 ELSE First(top)

\* a slip that scrolls once more than maxScrolls
MoreScrollsOneMore(i) ==
    i <= maxScrolls

\* skills.ts 361: the loop goes on
MoreScrolls(i) ==
    i < maxScrolls

\* findAndTap (skills.ts 341-401) up to the first scroll, or to its end
findAndTap(dec, elements) ==
    LET query == dec.query
        queryLower == toLowerCase(query)
        best == findMatch(elements, queryLower)
        l == Locals(dec, elements)
    IN IF query = Undefined \/ query = <<>>
       THEN Return(l, <<>>, <<>>,
                   ActionResult(FALSE, "find_and_tap requires a query", <<>>))
       ELSE IF best # 0
       THEN Return(l, <<Tap(elements[best].center)>>, <<>>,
                   ActionResult(TRUE, "Found and tapped",
                                elements[best].text))
       ELSE IF MoreScrolls(0)
       THEN Enter("find_and_tap", l)
       ELSE Return(l, <<>>, <<>>,
                   ActionResult(FALSE, "No element matching", <<>>))

\* one pass of the scroll loop of findAndTap (skills.ts 361-377), and the
\* rest of the function when the loop ends (380-400)
findAndTapScroll(freshElements) ==
    LET queryLower == toLowerCase(locals.dec.query)
        best == findMatch(freshElements, queryLower)
        scrolled == Append(cmds, Swipe)
        seenNow == Append(rescans, freshElements)
        l == [locals EXCEPT !.i = locals.i + 1]
    IN /\ skillPc = "find_and_tap"
       /\ IF best # 0
          THEN Return(l, Append(scrolled, Tap(freshElements[best].center)),
                      seenNow,
                      ActionResult(TRUE, "Found and tapped",
                                   freshElements[best].text))
          ELSE IF MoreScrolls(locals.i + 1)
          THEN /\ locals' = l
               /\ cmds' = scrolled
               /\ rescans' = seenNow
               /\ UNCHANGED <<skillPc, result, returned>>
          ELSE Return(l, scrolled, seenNow,
                      ActionResult(FALSE, "No element matching", <<>>))
       /\ UNCHANGED <<lastCommentLikeAttempt, likeLog>>

(***************************************************************************)
(* Skill 6: like_nth_comment / verify_nth_comment_like                     *)
(***************************************************************************)
IsDigit(c) == \E k \in 1..10 : c = Digits[k]

DigitValue(c) == (CHOOSE k \in 1..10 : c = Digits[k]) - 1

\* Number.parseInt(digits, 10) of a string of digits
RECURSIVE parseInt(_)
parseInt(digits) ==
    IF digits = <<>> THEN 0
    ELSE 10 * parseInt(SubSeq(digits, 1, Len(digits) - 1))
         + DigitValue(digits[Len(digits)])

\* the end of the longest run of characters of a class that starts at i
RECURSIVE RunEnd(_, _, _)
RunEnd(str, i, class) ==
    IF i + 1 <= Len(str) /\ str[i + 1] \in class
    THEN RunEnd(str, i + 1, class)
    ELSE i

\* String(raw).match(/\d+/): the first run of digits, <<>> for no match
MatchDigits(str) ==
    LET starts == {i \in 1..Len(str) : IsDigit(str[i])}
    IN IF starts = {} THEN <<>>
       ELSE SubSeq(str, First(starts), RunEnd(str, First(starts), Range(Digits)))

\* skills.ts 520: decision.query ?? decision.text ?? ""
RawOrdinal(dec) ==
    IF dec.query # Undefined THEN dec.query
    ELSE IF dec.text # Undefined THEN dec.text
    ELSE <<>>

\* parseNthCommentIndex (skills.ts 519-524)
parseNthCommentIndex(dec) ==
    LET match == MatchDigits(RawOrdinal(dec))
    IN IF match # <<>> /\ parseInt(match) > 0 THEN parseInt(match) ELSE 3

\* a word boundary \b between positions i and i + 1 of a string
WordBoundary(str, i) ==
    LET left == i >= 1 /\ IsWordChar(str[i])
        right == i + 1 <= Len(str) /\ IsWordChar(str[i + 1])
    IN left # right

\* parseFirstInt (skills.ts 526-530): /\b\d[\d,]*\b/ with the commas
\* removed, NoCount for no match
parseFirstInt(text) ==
    LET Ends(i) == {j \in i..RunEnd(text, i, Range(Digits) \cup {","}) :
                       WordBoundary(text, j)}
        starts == {i \in 1..Len(text) :
                      /\ IsDigit(text[i])
                      /\ WordBoundary(text, i - 1)
                      /\ Ends(i) # {}}
        from == First(starts)
        to == CHOOSE j \in Ends(from) : \A k \in Ends(from) : k <= j
        matched == SubSeq(text, from, to)
    IN IF starts = {} THEN NoCount
       ELSE parseInt(SelectSeq(matched, IsDigit))

\* the words the comment-like skills look for (skills.ts 546-552, 638)
LIKE == <<"l", "i", "k", "e">>
VIDEO_LIKE == <<"v", "i", "d", "e", "o", " ", "l", "i", "k", "e">>
LIKE_VIDEO == <<"l", "i", "k", "e", " ", "v", "i", "d", "e", "o">>
REPOST == <<"r", "e", "p", "o", "s", "t">>
LIKE_OR_UNDO_LIKE == <<"l", "i", "k", "e", " ", "o", "r", " ", "u", "n", "d", "o", " ", "l", "i", "k", "e">>
UNDO_LIKE == <<"u", "n", "d", "o", " ", "l", "i", "k", "e">>
LIKED == <<"l", "i", "k", "e", "d">>

Abs(n) == IF n < 0 THEN -n ELSE n

\* getScreenApprox (skills.ts 532-542): the width
ScreenWidth(elements) ==
    LET rights == {1080} \cup
            {elements[i].center[1]
                 + (IF elements[i].size[1] \div 2 > 0
                    THEN elements[i].size[1] \div 2 ELSE 0) :
             i \in DOMAIN elements}
    IN CHOOSE w \in rights : \A v \in rights : v <= w

\* `${el.text} ${el.id} ${el.hint}`.toLowerCase()
Hay(el) == toLowerCase(el.text \o <<" ">> \o el.id \o <<" ">> \o el.hint)

\* isCommentLikeButton (skills.ts 544-553)
isCommentLikeButton(el, screenWidth) ==
    /\ includes(Hay(el), LIKE)
    /\ ~includes(Hay(el), VIDEO_LIKE)
    /\ ~includes(Hay(el), LIKE_VIDEO)
    /\ ~includes(Hay(el), REPOST)
    /\ ~(el.center[1] * 100 < screenWidth * 72)
    /\ ~(el.center[2] < 900)
    /\ ~(el.center[2] > 2300)
    /\ \/ el.clickable
       \/ el.action = "tap"
       \/ includes(toLowerCase(el.text), LIKE_OR_UNDO_LIKE)

\* a slip that keeps the leftmost candidate of a row
ReplacesWhenLeft(el, kept) ==
    el.center[1] < kept.center[1]

\* skills.ts 569: the candidate takes the place of the one kept for the row
Replaces(el, kept) ==
    el.center[1] > kept.center[1]

\* the candidates of collectCommentLikeRows in the order of its sort
\* (skills.ts 557-559): top to bottom, right to left in one line
SortedCandidates(elements) ==
    LET width == ScreenWidth(elements)
        sorted == SortKeys({<<elements[i].center[2],
                              0 - elements[i].center[1], i>> :
                            i \in {j \in DOMAIN elements :
                                      isCommentLikeButton(elements[j],
                                                          width)}})
    IN [k \in DOMAIN sorted |-> sorted[k][3]]

\* the loop of collectCommentLikeRows (skills.ts 562-572) over the sorted
\* candidates: one row for the candidates within 24 px of the one kept, the
\* rightmost kept; merged[k] are the candidates that went into row k
RECURSIVE MergedRows(_, _, _, _)
MergedRows(els, candidates, rows, merged) ==
    IF candidates = <<>> THEN [rows |-> rows, merged |-> merged]
    ELSE LET el == Head(candidates)
             near == {k \in DOMAIN rows :
                         Abs(els[rows[k]].center[2] - els[el].center[2])
                             <= 24}
             existingIdx == First(near)
         IN IF near = {}
            THEN MergedRows(els, Tail(candidates), Append(rows, el),
                            Append(merged, {el}))
            ELSE MergedRows(els, Tail(candidates),
                            IF Replaces(els[el], els[rows[existingIdx]])
                            THEN [rows EXCEPT ![existingIdx] = el]
                            ELSE rows,
                            [merged EXCEPT ![existingIdx] = @ \cup {el}])

\* collectCommentLikeRows (skills.ts 555-575): the indices of the rows
collectCommentLikeRows(elements) ==
    LET rows == MergedRows(elements, SortedCandidates(elements),
                           <<>>, <<>>).rows
        byY == SortKeys({<<elements[rows[k]].center[2], 0, k>> :
                         k \in DOMAIN rows})
    IN [k \in DOMAIN byY |-> rows[byY[k][3]]]

\* findNearbyCommentCount (skills.ts 577-591), NoCount for null
findNearbyCommentCount(elements, target) ==
    LET nearby == {i \in DOMAIN elements :
                      /\ elements[i].text # <<>>
                      /\ ~(Abs(elements[i].center[2] - target.center[2]) > 70)
                      /\ ~(elements[i].center[1] < target.center[1] - 180)
                      /\ ~(elements[i].center[1] > target.center[1] + 40)
                      /\ parseFirstInt(elements[i].text) # NoCount}
    IN IF nearby = {} THEN NoCount
       ELSE parseFirstInt(elements[First(nearby)].text)

\* likeNthComment (skills.ts 593-615); likeLog keeps what was recorded for
\* each ordinal
likeNthComment(dec, elements) ==
    LET index == parseNthCommentIndex(dec)
        rows == collectCommentLikeRows(elements)
        target == elements[rows[index]]
        attempt == [index |-> index, x |-> target.center[1],
                    y |-> target.center[2],
                    countBefore |-> findNearbyCommentCount(elements, target)]
        l == [Locals(dec, elements) EXCEPT !.index = index]
    IN IF Len(rows) < index
       THEN /\ Return(l, <<>>, <<>>,
                      ActionResult(FALSE,
                          "Only found fewer visible comment-like buttons",
                          <<>>))
            /\ UNCHANGED <<lastCommentLikeAttempt, likeLog>>
       ELSE /\ Return(l, <<Tap(target.center)>>, <<>>,
                      ActionResult(TRUE, "Tapped heart for visible comment",
                                   <<>>))
            /\ lastCommentLikeAttempt' = attempt
            /\ likeLog' = (index :> attempt) @@ likeLog

\* skills.ts 627-633: the row that is verified, given the recorded attempt
VerifyTarget(elements, rows, index, attempt) ==
    LET byDy == SortKeys({<<Abs(elements[rows[k]].center[2] - attempt.y),
                            0, k>> : k \in DOMAIN rows})
        nearest == byDy[1]
    IN IF attempt # NoAttempt /\ attempt.index = index /\ nearest[1] <= 80
       THEN rows[nearest[3]]
       ELSE rows[index]

\* skills.ts 637-638
SelectedLike(target) ==
    \/ target.selected
    \/ target.checked
    \/ includes(Hay(target), UNDO_LIKE)
    \/ includes(Hay(target), LIKED)

\* skills.ts 640-645
CountChanged(attempt, index, countNow) ==
    /\ attempt # NoAttempt
    /\ attempt.index = index
    /\ attempt.countBefore # NoCount
    /\ countNow # NoCount
    /\ countNow # attempt.countBefore

\* verifyNthCommentLike (skills.ts 617-660)
verifyNthCommentLike(dec, elements) ==
    LET index == parseNthCommentIndex(dec)
        rows == collectCommentLikeRows(elements)
        target == elements[VerifyTarget(elements, rows, index,
                                        lastCommentLikeAttempt)]
        countNow == findNearbyCommentCount(elements, target)
        l == [Locals(dec, elements) EXCEPT !.index = index]
    IN IF Len(rows) < index
       THEN Return(l, <<>>, <<>>,
                   ActionResult(FALSE, "Could not verify", <<>>))
       ELSE IF \/ SelectedLike(target)
               \/ CountChanged(lastCommentLikeAttempt, index, countNow)
       THEN Return(l, <<>>, <<>>,
                   ActionResult(TRUE, "like verified", <<>>))
       ELSE Return(l, <<>>, <<>>,
                   ActionResult(FALSE, "like not confirmed yet", <<>>))

(***************************************************************************)
(* executeSkill                                                            *)
(***************************************************************************)
\* a slip that dispatches on the action even when a skill is named
SkillNameFromAction(dec) ==
    IF dec.action # Unnamed THEN dec.action ELSE dec.skill

\* skills.ts 29: decision.skill ?? decision.action
SkillName(dec) ==
    IF dec.skill # Unnamed THEN dec.skill ELSE dec.action

\* executeSkill (skills.ts 25-52), up to the first wait of the skill;
\* newElements is what rescanScreen returns to a skill that looks once
executeSkill(dec, elements, newElements) ==
    LET skill == SkillName(dec)
    IN /\ skillPc = "idle"
       /\ CASE skill = "read_screen" ->
                 /\ readScreen(dec, elements)
                 /\ UNCHANGED <<lastCommentLikeAttempt, likeLog>>
            [] skill = "submit_message" ->
                 /\ submitMessage(dec, elements, newElements)
                 /\ UNCHANGED <<lastCommentLikeAttempt, likeLog>>
            [] skill = "copy_visible_text" ->
                 /\ copyVisibleText(dec, elements)
                 /\ UNCHANGED <<lastCommentLikeAttempt, likeLog>>
            [] skill = "wait_for_content" ->
                 /\ waitForContent(dec, elements)
                 /\ UNCHANGED <<lastCommentLikeAttempt, likeLog>>
            [] skill = "find_and_tap" ->
                 /\ findAndTap(dec, elements)
                 /\ UNCHANGED <<lastCommentLikeAttempt, likeLog>>
            [] skill = "compose_email" ->
                 /\ composeEmail(dec, elements, newElements)
                 /\ UNCHANGED <<lastCommentLikeAttempt, likeLog>>
            [] skill = "like_nth_comment" ->
                 likeNthComment(dec, elements)
            [] skill = "verify_nth_comment_like" ->
                 /\ verifyNthCommentLike(dec, elements)
                 /\ UNCHANGED <<lastCommentLikeAttempt, likeLog>>
            [] OTHER ->
                 /\ Return(Locals(dec, elements), <<>>, <<>>,
                           ActionResult(FALSE, "Unknown skill", <<>>))
                 /\ UNCHANGED <<lastCommentLikeAttempt, likeLog>>

(***************************************************************************)
(* The decisions and the screens the skills are run on                     *)
(***************************************************************************)
\* a string of n characters c
Rep(c, n) == [i \in 1..n |-> c]

\* an enabled element with a text and a resource id, centred at (x, y)
Element(text, id, x, y) ==
    [BlankElement EXCEPT !.text = text, !.id = id, !.center = <<x, y>>,
                         !.size = <<80, 80>>, !.enabled = TRUE]

\* the sanitizer's flags of an element that can be clicked
Clickable(el) == [el EXCEPT !.clickable = TRUE, !.action = "tap"]

\* an element whose primary action is a tap although it is not clickable
TapOnly(el) == [el EXCEPT !.action = "tap"]

Disabled(el) == [el EXCEPT !.enabled = FALSE]

Selected(el) == [el EXCEPT !.selected = TRUE]

Editable(el, hint) ==
    [el EXCEPT !.editable = TRUE, !.action = "type", !.hint = hint]

\* a screen without any element, also what rescanScreen returns when the
\* capture fails (skills.ts 72-76)
NoElements == <<>>

\* a chat: a message, and a send icon that is enabled and has the tap
\* action but is not clickable itself
ChatScreen ==
    <<Element(<<"H", "e", "l", "l", "o">>, <<>>, 540, 500),
      TapOnly(Element(<<>>, <<"b", "t", "n", "_", "s", "e", "n", "d">>, 1000, 2200))>>

\* the chat after the reply has arrived
ReplyScreen ==
    <<Element(<<"H", "e", "l", "l", "o">>, <<>>, 540, 500),
      Element(<<"H", "e", "r", "e", " ", "i", "s", " ", "t", "h", "e", " ", "a", "n", "s", "w", "e", "r", " ", "y", "o", "u", " ", "a", "s", "k", "e", "d", " ", "f", "o", "r">>, <<>>, 540, 700),
      TapOnly(Element(<<>>, <<"b", "t", "n", "_", "s", "e", "n", "d">>, 1000, 2200))>>

\* nothing can be tapped: a disabled Send button and a Post label
ReadOnlyScreen ==
    <<Disabled(Clickable(Element(<<"S", "e", "n", "d">>, <<>>, 1000, 2200))),
      Element(<<"P", "o", "s", "t">>, <<>>, 540, 300)>>

\* buttons without a send-like name; two of them in the bottom 20%
ButtonsScreen ==
    <<Clickable(Element(<<"O", "K">>, <<>>, 500, 1000)),
      Clickable(Element(<<"M", "o", "r", "e">>, <<>>, 200, 2200)),
      Clickable(Element(<<>>, <<"i", "c", "o", "n", "_", "1">>, 900, 2150))>>

\* a settings list: the exact entry comes after a longer, disabled one
SettingsScreen ==
    <<Disabled(Element(<<"S", "e", "t", "t", "i", "n", "g", "s", " ", "m", "e", "n", "u">>, <<>>, 540, 400)),
      Clickable(Element(<<"S", "E", "T", "T", "I", "N", "G", "S">>, <<>>, 540, 600)),
      Clickable(Element(<<"P", "a", "p", "e", "r", "-", "p", "l", "a", "n", "e">>, <<>>, 1000, 2200))>>

\* an email compose screen
ComposeScreen ==
    <<Editable(Element(<<>>, <<"s", "u", "b", "j", "e", "c", "t">>, 540, 400), <<"S", "u", "b", "j", "e", "c", "t">>),
      Editable(Element(<<>>, <<>>, 540, 900), <<"C", "o", "m", "p", "o", "s", "e", " ", "e", "m", "a", "i", "l">>),
      Editable(Element(<<>>, <<>>, 540, 1500), <<>>)>>

\* a row of a comment list: the count label and the heart button
CommentRow(y, count, heart) ==
    <<Element(count, <<>>, 900, y), [heart EXCEPT !.center = <<1000, y>>]>>

Heart == Clickable(Element(<<"L", "i", "k", "e">>, <<>>, 1000, 0))

\* three comments, none liked
CommentsScreen ==
    CommentRow(1000, <<"1", "2">>, Heart) \o CommentRow(1200, <<"5">>, Heart)
        \o CommentRow(1400, <<"1", ",", "2", "3", "4">>, Heart)

\* the comments after the first was liked: its count went up, the button
\* shows no other sign
CommentsCountedScreen ==
    CommentRow(1000, <<"1", "3">>, Heart) \o CommentRow(1200, <<"5">>, Heart)
        \o CommentRow(1400, <<"1", ",", "2", "3", "4">>, Heart)

\* the comments after the second was liked: its button is selected
CommentsSelectedScreen ==
    CommentRow(1000, <<"1", "2">>, Heart) \o CommentRow(1200, <<"5">>, Selected(Heart))
        \o CommentRow(1400, <<"1", ",", "2", "3", "4">>, Heart)

Screens ==
    {NoElements, ChatScreen, ReadOnlyScreen, ButtonsScreen, SettingsScreen,
     CommentsScreen, CommentsCountedScreen, CommentsSelectedScreen}

\* what rescanScreen returns to a skill that looks once
OnceScreens == {NoElements, ReplyScreen, ComposeScreen}

\* what rescanScreen returns in the loops of the executeSkill specification
LoopScreens == {ChatScreen, SettingsScreen}

\* the decisions: every skill, named by skill or by action, and names that
\* are no skill
Decisions ==
    {Decision("read_screen", "read_screen", Undefined, Undefined),
     Decision(Unnamed, "submit_message", Undefined, Undefined),
     Decision(Unnamed, "copy_visible_text", Undefined, Undefined),
     Decision(Unnamed, "copy_visible_text", <<"s", "e", "t", "t">>, Undefined),
     Decision(Unnamed, "wait_for_content", Undefined, Undefined),
     Decision(Unnamed, "find_and_tap", <<"S", "e", "t", "t", "i", "n", "g", "s">>, Undefined),
     Decision(Unnamed, "find_and_tap", <<>>, Undefined),
     Decision("compose_email", Unnamed, <<"a", "@", "b", ".", "i", "o">>, <<"H", "e", "l", "l", "o">>),
     Decision("compose_email", Unnamed, Undefined, <<"t", "o", " ", "x", "@", "y", ".", "o", "r", "g">>),
     Decision("compose_email", Unnamed, Undefined, <<"H", "e", "l", "l", "o">>),
     Decision(Unnamed, "tap", Undefined, Undefined),
     Decision(Unnamed, "like_nth_comment", <<"1">>, Undefined),
     Decision(Unnamed, "verify_nth_comment_like", <<"1">>, Undefined),
     Decision("open_app", "find_and_tap", <<"S", "e", "t", "t", "i", "n", "g", "s">>, Undefined)}

\* the decisions of the comment-like skills: the ordinal given in several
\* ways
LikeDecisions ==
    {Decision(Unnamed, "like_nth_comment", <<"1">>, Undefined),
     Decision(Unnamed, "like_nth_comment", <<"2">>, Undefined),
     Decision(Unnamed, "like_nth_comment", <<"-", "2">>, Undefined),
     Decision(Unnamed, "like_nth_comment", <<"0">>, Undefined),
     Decision(Unnamed, "like_nth_comment", Undefined, <<"c", "o", "m", "m", "e", "n", "t", " ", "2">>),
     Decision(Unnamed, "like_nth_comment", Undefined, Undefined),
     Decision(Unnamed, "like_nth_comment", <<"7">>, Undefined),
     Decision(Unnamed, "verify_nth_comment_like", <<"1">>, Undefined),
     Decision(Unnamed, "verify_nth_comment_like", <<"2">>, Undefined)}

\* the screens of the comment-like skills
LikeScreens ==
    {NoElements, CommentsScreen, CommentsCountedScreen,
     CommentsSelectedScreen}

\* where the like buttons of the generated comment screens lie: lines 20,
\* 24 and 16 px apart, so that neighbours merge and the ends do not
RowPositions == {<<1000, 1000>>, <<1040, 1020>>, <<1000, 1044>>, <<1040, 1060>>}

HeartAt(pos) == [Heart EXCEPT !.center = pos]

\* every screen of three like buttons at three of these positions, in every
\* order
HeartScreens ==
    {<<HeartAt(p[1]), HeartAt(p[2]), HeartAt(p[3])>> :
        p \in {q \in RowPositions \X RowPositions \X RowPositions :
                  q[1] # q[2] /\ q[1] # q[3] /\ q[2] # q[3]}}

\* a label that reads as a like button and is not clickable, above a button
LabelScreen ==
    <<Element(<<"L", "i", "k", "e", " ", "o", "r", " ", "u", "n", "d", "o", " ", "l", "i", "k", "e">>, <<>>, 1000, 1000),
      HeartAt(<<1000, 1200>>)>>

\* like buttons on the left, in the header, in the footer, of the video,
\* a label "Like" that cannot be tapped, and one button of a comment
OutsideScreen ==
    <<HeartAt(<<700, 1000>>), HeartAt(<<1000, 880>>), HeartAt(<<1000, 2310>>),
      Clickable(Element(<<"L", "i", "k", "e", " ", "v", "i", "d", "e", "o">>, <<>>, 1000, 1500)),
      Element(<<"L", "i", "k", "e">>, <<>>, 1000, 1600),
      HeartAt(<<1000, 1700>>)>>

\* a screen 1,540 px wide: the button at x = 1,040 is left of its last 28%
WideScreen ==
    <<Element(<<"T", "a", "b">>, <<>>, 1500, 500),
      HeartAt(<<1040, 1000>>), HeartAt(<<1200, 1200>>)>>

RowDecisions ==
    {Decision(Unnamed, "like_nth_comment", <<"1">>, Undefined),
     Decision(Unnamed, "verify_nth_comment_like", <<"1">>, Undefined),
     Decision(Unnamed, "verify_nth_comment_like", <<"2">>, Undefined)}

RowScreens == HeartScreens \cup {LabelScreen, OutsideScreen, WideScreen}

(***************************************************************************)
(* getScreenTree (DroidClawAccessibilityService.kt)                        *)
(***************************************************************************)
\* DroidClawAccessibilityService.kt 766
delays == <<50, 100, 200, 300, 500>>

\* the active window at one attempt: rootInActiveWindow is null or not, and
\* what ScreenTreeBuilder.capture makes of it
Window(root, elements) == [root |-> root, elements |-> elements]

Windows ==
    {Window(FALSE, <<>>), Window(TRUE, <<>>), Window(TRUE, <<"a">>),
     Window(TRUE, <<"a", "b">>)}

\* no call has returned yet
NoTree == [returned |-> FALSE, elements |-> <<>>]

TreeReturn(elements) == [returned |-> TRUE, elements |-> elements]

InitTree ==
    /\ treePc = "idle"
    /\ treeAttempts = <<>>
    /\ waits = <<>>
    /\ treeResult = NoTree
    /\ lastScreenTree = <<>>

\* a slip that retries after an empty capture on the last attempt as well
RetryWhenEmptyAlways(delayMs) ==
    TRUE

\* DroidClawAccessibilityService.kt 774: delayMs < delays.last()
RetryWhenEmpty(delayMs) ==
    delayMs < delays[Len(delays)]

\* getScreenTree is called (763-767)
getScreenTree ==
    /\ treePc = "idle"
    /\ treePc' = "attempt"
    /\ treeAttempts' = <<>>
    /\ waits' = <<>>
    /\ treeResult' = NoTree
    /\ UNCHANGED lastScreenTree

\* one pass of the loop of getScreenTree (767-786) with its delay, and the
\* return after the last pass (787-788)
getScreenTreeAttempt(window) ==
    LET delayMs == delays[Len(treeAttempts) + 1]
        retry == \/ ~window.root
                 \/ window.elements = <<>> /\ RetryWhenEmpty(delayMs)
        lastPass == Len(treeAttempts) + 1 = Len(delays)
    IN /\ treePc = "attempt"
       /\ treeAttempts' = Append(treeAttempts, window)
       /\ IF retry
          THEN /\ waits' = Append(waits, delayMs)
               /\ UNCHANGED lastScreenTree
               /\ IF lastPass
                  THEN treePc' = "idle" /\ treeResult' = TreeReturn(<<>>)
                  ELSE UNCHANGED <<treePc, treeResult>>
          ELSE /\ lastScreenTree' = window.elements
               /\ treePc' = "idle"
               /\ treeResult' = TreeReturn(window.elements)
               /\ UNCHANGED waits

(***************************************************************************)
(* POST /investigate/:sessionId (health.ts)                                *)
(***************************************************************************)
\* health.ts 140 and 160: hints taken from a response, hints kept per app
HintLimit == 5

\* the callers and the dominant packages of their sessions (health.ts
\* 67-81); "unknown" when no step of the session names a package
HintUsers == {"u1"}
HintPackages == {"com.chat", "unknown"}

\* how many hints the response of the LLM holds
ReturnedHints == {0, 3, 6}

InitHints ==
    /\ appHint = {}
    /\ investigations = <<>>
    /\ hintClock = 0

\* parsed.hints.slice(0, 5) (health.ts 140): how many hints are left
ParsedHints(given) ==
    IF given > HintLimit THEN HintLimit ELSE given

\* Array.prototype.slice(start) for 0 <= start
Slice(seq, start) ==
    IF start >= Len(seq) THEN <<>> ELSE SubSeq(seq, start + 1, Len(seq))

\* the ids of a set of rows, ordered by desc(createdAt)
RECURSIVE NewestFirst(_)
NewestFirst(rows) ==
    IF rows = {} THEN <<>>
    ELSE LET r == CHOOSE x \in rows : \A y \in rows : y.createdAt <= x.createdAt
         IN <<r.id>> \o NewestFirst(rows \ {r})

\* health.ts 153-157: the select on app_hint
ExistingHints(user, packageName) ==
    NewestFirst({r \in appHint :
                    r.userId = user /\ r.packageName = packageName})

\* health.ts 159-161: the rows to delete
ToDelete(existing, hints) ==
    IF Len(existing) + hints > HintLimit
    THEN Slice(existing, HintLimit - hints)
    ELSE <<>>

\* calls that are between two of their awaits
Investigating ==
    {i \in DOMAIN investigations :
        investigations[i].pc \in {"delete", "insert"}}

\* the handler from its start to the answer of the select on app_hint
\* (health.ts 39-161): the session and its steps are found, the LLM has
\* answered with so many hints; without hints the call ends with 400
investigatePost(user, packageName, given) ==
    LET hints == ParsedHints(given)
        existing == ExistingHints(user, packageName)
        toDelete == ToDelete(existing, hints)
    IN
    /\ Len(investigations) < MaxInvestigations
    /\ Cardinality(Investigating) < MaxInvestigateFlight
    /\ investigations' = Append(investigations,
           [userId |-> user, packageName |-> packageName, hints |-> hints,
            existing |-> existing, deleted |-> toDelete,
            toDelete |-> toDelete, inserted |-> {},
            pc |-> IF hints = 0 THEN "rejected"
                   ELSE IF toDelete # <<>> THEN "delete" ELSE "insert"])
    /\ UNCHANGED <<appHint, hintClock>>

\* one pass of the loop of health.ts 162-164
investigateDelete(i) ==
    LET c == investigations[i] IN
    /\ i \in DOMAIN investigations
    /\ c.pc = "delete"
    /\ appHint' = {r \in appHint : r.id # Head(c.toDelete)}
    /\ investigations' = [investigations EXCEPT
           ![i].toDelete = Tail(@),
           ![i].pc = IF Tail(c.toDelete) = <<>> THEN "insert" ELSE "delete"]
    /\ UNCHANGED hintClock

\* one pass of the loop of health.ts 169-179, and the answer after the last
investigateInsert(i) ==
    LET c == investigations[i]
        id == hintClock + 1
    IN
    /\ i \in DOMAIN investigations
    /\ c.pc = "insert"
    /\ hintClock' = id
    /\ appHint' = appHint \cup
           {[id |-> id, userId |-> c.userId, packageName |-> c.packageName,
             createdAt |-> id, sourceSessionId |-> i]}
    /\ investigations' = [investigations EXCEPT
           ![i].inserted = @ \cup {id},
           ![i].pc = IF Cardinality(c.inserted) + 1 = c.hints
                     THEN "done" ELSE "insert"]

NextHints ==
    \/ \E u \in HintUsers, p \in HintPackages, n \in ReturnedHints :
          investigatePost(u, p, n) /\ UNCHANGED notHints
    \/ \E i \in 1..MaxInvestigations :
          investigateDelete(i) /\ UNCHANGED notHints
    \/ \E i \in 1..MaxInvestigations :
          investigateInsert(i) /\ UNCHANGED notHints

vars == <<goalVars, pairVars, voiceVars, loopVars, routerVars,
          wsVars, skillVars, treeVars, hintVars>>

\* the server after start-up
Init ==
    /\ InitGoals /\ InitPairing /\ InitVoice /\ InitLoop /\ InitRouter
    /\ InitWs
    /\ InitSkills
    /\ InitTree
    /\ InitHints

\* the server after start-up and one create request
InitWithCode ==
    /\ InitGoals /\ InitRate /\ InitVoice /\ InitLoop /\ InitRouter
    /\ InitWs
    /\ InitSkills
    /\ InitTree
    /\ InitHints

SpecGoals == Init /\ [][NextGoals]_vars

SpecPairing == Init /\ [][NextPairing]_vars

SpecCreate == Init /\ [][NextCreate]_vars

SpecRate == InitWithCode /\ [][NextRate]_vars

SpecStatus == Init /\ [][NextStatus]_vars

SpecVoice == Init /\ [][NextVoice]_vars

SpecVoiceRestart == Init /\ [][NextVoiceRestart]_vars

SpecVoiceOverlap == Init /\ [][NextVoiceOverlap]_vars

SpecLoop == Init /\ [][NextLoop]_vars

SpecRouter == Init /\ [][NextRouter]_vars

SpecWs == Init /\ [][NextWs]_vars

\* find_and_tap with a query, with an empty one and without one
FindDecisions ==
    {Decision(Unnamed, "find_and_tap", <<"S", "e", "t", "t", "i", "n", "g", "s">>, Undefined),
     Decision(Unnamed, "find_and_tap", <<>>, Undefined),
     Decision("find_and_tap", Unnamed, Undefined, Undefined)}

\* four entries that contain "settings": two exact ones that are enabled
\* and not clickable, a longer one that is clickable, an exact one that is
\* disabled and long-clickable
TiedScreen ==
    <<Element(<<"S", "e", "t", "t", "i", "n", "g", "s">>, <<>>, 540, 300),
      Element(<<"s", "e", "t", "t", "i", "n", "g", "s">>, <<>>, 540, 500),
      Clickable(Element(<<"S", "e", "t", "t", "i", "n", "g", "s", " ", "a", "p", "p">>, <<>>, 540, 700)),
      [Disabled(Element(<<"S", "E", "T", "T", "I", "N", "G", "S">>, <<>>, 540, 900))
          EXCEPT !.longClickable = TRUE]>>

\* the screens of find_and_tap: two without the entry, two with it
FindScreens == {NoElements, ChatScreen, SettingsScreen, TiedScreen}

WaitDecisions ==
    {Decision(Unnamed, "wait_for_content", Undefined, Undefined)}

\* a screen with a text of 20 characters and a short one
OldScreen ==
    <<Element(Rep("a", 20), <<>>, 540, 400),
      Element(<<"H", "e", "l", "l", "o">>, <<>>, 540, 600)>>

\* the screen with one more text, of n characters
OneMoreText(n) == Append(OldScreen, Element(Rep("b", n), <<>>, 540, 800))

\* the screen with two more texts, of 10 and 11 characters
TwoMoreTexts ==
    OldScreen \o <<Element(Rep("c", 10), <<>>, 540, 800),
                   Element(Rep("d", 11), <<>>, 540, 1000)>>

\* the screens wait_for_content starts on
WaitScreens == {NoElements, OldScreen}

\* what rescanScreen returns to wait_for_content
WaitFresh ==
    {NoElements, OldScreen, OneMoreText(20), OneMoreText(21), TwoMoreTexts}

\* a call of executeSkill by the agent loop
Call(decisions, screens) ==
    \E dec \in decisions, elements \in screens :
        \E newElements \in
                IF SkillName(dec) \in {"submit_message", "compose_email"}
                THEN OnceScreens ELSE {NoElements} :
            executeSkill(dec, elements, newElements)

NextSkills ==
    \/ Call(Decisions, Screens) /\ UNCHANGED notSkills
    \/ (\E newElements \in LoopScreens : readScreenScroll(newElements))
           /\ UNCHANGED notSkills
    \/ (\E newElements \in LoopScreens : waitForContentPoll(newElements))
           /\ UNCHANGED notSkills
    \/ (\E freshElements \in LoopScreens : findAndTapScroll(freshElements))
           /\ UNCHANGED notSkills

SpecSkills == Init /\ [][NextSkills]_vars

NextFindTap ==
    \/ Call(FindDecisions, FindScreens) /\ UNCHANGED notSkills
    \/ (\E freshElements \in FindScreens : findAndTapScroll(freshElements))
           /\ UNCHANGED notSkills

SpecFindTap == Init /\ [][NextFindTap]_vars

NextWait ==
    \/ Call(WaitDecisions, WaitScreens) /\ UNCHANGED notSkills
    \/ (\E newElements \in WaitFresh : waitForContentPoll(newElements))
           /\ UNCHANGED notSkills

SpecWait == Init /\ [][NextWait]_vars

NextTree ==
    \/ getScreenTree /\ UNCHANGED notTree
    \/ (\E window \in Windows : getScreenTreeAttempt(window))
           /\ UNCHANGED notTree

SpecTree == Init /\ [][NextTree]_vars

NextLike ==
    Call(LikeDecisions, LikeScreens) /\ UNCHANGED notSkills

SpecLike == Init /\ [][NextLike]_vars

NextRows ==
    Call(RowDecisions, RowScreens) /\ UNCHANGED notSkills

SpecRows == Init /\ [][NextRows]_vars

SpecHints == Init /\ [][NextHints]_vars

\* every wait of the loop task ends (each has a timeout), so the task goes on
SpecLoopFair == Init /\ [][NextLoop]_vars /\ WF_vars(LoopStep)

(***************************************************************************)
(* Claims about goal submission and stop.                                  *)
(***************************************************************************)
Admitted == {"started", "await"}
Rejected == {"required", "not_connected", "forbidden", "conflict"}

\* C1: for every device, at most one agent loop started through goal
\* submission is running at any time.
C1_OneLoopPerDevice ==
    \A i \in DOMAIN loops, j \in DOMAIN loops :
        loops[i].key = loops[j].key => i = j

\* C2: a conflict answer carries the sessionId and the goal of the session
\* that is running on the device.
C2_ConflictNamesRunningSession ==
    (last.op = "post" /\ last.out = "conflict") =>
        [sessionId |-> last.sessionId, goal |-> last.rgoal] \in last.running

\* C3: the termination of a loop (resolved, rejected, after an abort or not)
\* leaves the device's admission slot free, and a submission of the owner for
\* a connected device on which no loop is running is admitted.
C3_ReleasedThenAdmitted ==
    /\ last.op \in {"then", "catch"} =>
           /\ ~MapHas(activeSessions, last.key)
           /\ \A c \in connected, g \in Goals :
                  TrackingKey(c) = last.key =>
                      Admission(DeviceUser(c), c, g) = "admit"
    /\ (last.op = "post" /\ ~last.missing /\ last.owner /\ last.running = {}) =>
           last.out \in Admitted

\* C3 witness: a submission was admitted on a device on which a loop had
\* terminated before.
C3_Witness ==
    /\ last.op = "post"
    /\ last.out = "started"
    /\ last.key \in endedOn
    /\ last.running = {}

\* C3 witness of the cancellation case: an aborted loop has just terminated
\* and the device is still connected.
C3_WitnessCancelled ==
    /\ last.op = "catch"
    /\ last.out = "aborted"
    /\ \E c \in connected : TrackingKey(c) = last.key

\* C4: a stop of the owner while a session is running for the device aborts
\* that session and answers "stopping"; with no session running it answers
\* not-found and aborts nothing.
C4_StopSignalsRunningSession ==
    (last.op = "stop" /\ last.owner) =>
        IF last.running # {}
        THEN /\ last.out = "stopping"
             /\ \A s \in last.running : s.sessionId = last.target
        ELSE /\ last.out = "no_agent"
             /\ last.target = 0

\* C5: a submission is answered not-found for a device that is not
\* connected, forbidden for a caller who does not own it, conflict when a
\* session is running for it (when the handler checks, and when it answers
\* after the config fetch); in these cases, with a missing deviceId or goal,
\* and with no LLM provider, no loop is started and the admission map is
\* unchanged.
C5_SubmissionErrors ==
    /\ last.op = "post" =>
           /\ (~last.missing /\ last.conn = Null) => last.out = "not_connected"
           /\ (~last.missing /\ last.conn # Null /\ ~last.owner) =>
                  last.out = "forbidden"
           /\ last.missing => last.out = "required"
    /\ (last.op \in {"post", "config"} /\ ~last.missing /\ last.owner
            /\ last.running # {}) =>
           last.out = "conflict"
    /\ (last.out \in Rejected \cup {"no_llm"} /\ last.op \in {"post", "config"}) =>
           /\ last.target = 0
           /\ ~last.touched

(***************************************************************************)
(* Claims about pairing.                                                   *)
(***************************************************************************)
\* C6: a claim that looks up a code that was claimed successfully before is
\* answered "Invalid or expired code"; it ends there, creates no API key and
\* changes no row.
C6_ClaimedCodeIsInvalid ==
    (plast.op = "lookup" /\ plast.late) =>
        /\ plast.out = "invalid"
        /\ ~plast.touched
        /\ plast.flight = -1

\* C6 witness: a claim has looked up a code that was claimed successfully
\* before and was answered "Invalid or expired code".
C6_Witness ==
    /\ plast.op = "lookup"
    /\ plast.late
    /\ plast.out = "invalid"
    /\ claimedCodes # {}

\* C7: from every pairing code row at most one API key is created, whatever
\* the interleaving of the claims that carry its code.
C7_OneKeyPerCode ==
    \A i \in DOMAIN apiKeys : apiKeys[i] <= 1

\* C8: every row expires CodeTtlMs after its creation; a claim goes on to
\* create an API key only from a row whose expiry time was later than the
\* time of its lookup; a claim of a code whose row has expired is answered
\* "Invalid or expired code", ends there and changes neither rows nor keys.
C8_ExpiredCodeIsInvalid ==
    /\ \A r \in pairingCode : r.expiresAt = r.createdAt + CodeTtlMs
    /\ \A q \in BagToSet(claims) :
           q.pc \in {"issue", "delete"} =>
               /\ q.fresh
               /\ q.row.expiresAt = q.row.createdAt + CodeTtlMs
    /\ (plast.op = "lookup" /\ plast.expired) =>
           /\ plast.out = "invalid"
           /\ ~plast.touched
           /\ plast.flight = -1
           /\ \E r \in pairingCode : r.expiresAt <= now

\* C8 witness: a claim has looked up a code whose row had expired, and was
\* answered "Invalid or expired code".
C8_Witness ==
    /\ plast.op = "lookup"
    /\ plast.expired
    /\ plast.out = "invalid"
    /\ \E r \in pairingCode : r.expiresAt <= now

\* C9: the table holds at most one row per user at every moment, whatever
\* the interleaving of the user's create requests.
C9_OneCodePerUser ==
    \A u \in Users : Cardinality({r \in pairingCode : r.userId = u}) <= 1

\* the attempts of log that got past the limiter in the minute that begins
\* with attempt i
InMinuteFrom(log, i) ==
    {j \in 1..Len(log) : /\ log[j].at >= log[i].at
                         /\ log[j].at < log[i].at + RateWindowMs}

\* the attempts of log that got past the limiter in the window of attempt i
InWindowOf(log, i) ==
    {j \in 1..Len(log) : log[j].resetAt = log[i].resetAt}

\* C10: of one ip, no more than MaxAttempts attempts within any period of
\* one minute get past the rate limiter; an attempt answered 429 looks up
\* nothing, and changes neither rows nor keys.
C10_FivePerMinute ==
    /\ \A ip \in IPs : \A i \in 1..Len(passes[ip]) :
           Cardinality(InMinuteFrom(passes[ip], i)) <= MaxAttempts
    /\ (plast.op = "claim" /\ plast.out = "limited") =>
           (~plast.touched /\ plast.flight = 0)

\* C10 as amended: of one ip, no more than MaxAttempts attempts within one
\* rate-limit window get past the rate limiter; an attempt answered 429
\* looks up nothing, and changes neither rows nor keys.
C10_FivePerWindow ==
    /\ \A ip \in IPs : \A i \in 1..Len(passes[ip]) :
           Cardinality(InWindowOf(passes[ip], i)) <= MaxAttempts
    /\ (plast.op = "claim" /\ plast.out = "limited") =>
           (~plast.touched /\ plast.flight = 0)

\* C10 witness: an attempt was answered 429 after MaxAttempts attempts of
\* its window had got past the limiter.
C10_Witness ==
    /\ plast.op = "claim"
    /\ plast.out = "limited"
    /\ \E ip \in DOMAIN claimAttempts :
           /\ claimAttempts[ip].count > MaxAttempts
           /\ Cardinality({j \in 1..Len(passes[ip]) :
                   passes[ip][j].resetAt = claimAttempts[ip].resetAt}) = MaxAttempts

\* C11: status answers paired=true when its select returns no row of the
\* user, so too after a successful claim has left none; when the select
\* returns a row it answers paired=false, with expired=true exactly when the
\* expiry time of that row had passed at the time of the request.
C11_StatusFollowsRecord ==
    plast.op = "answer" =>
        IF plast.hasRow
        THEN plast.out = (IF plast.rowPast THEN "expired" ELSE "waiting")
        ELSE plast.out = "paired"

\* C11 witness: status has answered paired=true for a user whose code was
\* claimed successfully and of whom the table holds no row.
C11_Witness ==
    /\ plast.op = "answer"
    /\ plast.out = "paired"
    /\ plast.user \in claimedBy
    /\ \A r \in pairingCode : r.userId # plast.user

\* C11 witness of the other answers: status has answered expired=true for a
\* row whose expiry time had passed.
C11_WitnessExpired ==
    /\ plast.op = "answer"
    /\ plast.out = "expired"
    /\ plast.hasRow /\ plast.rowPast

\* C12: status answers paired=true for a user only if a code of that user
\* has been claimed successfully.
C12_PairedOnlyAfterClaim ==
    (plast.op = "answer" /\ plast.out = "paired") => plast.user \in claimedBy


(***************************************************************************)
(* Voice sessions                                                          *)
(***************************************************************************)
\* the sessions of device d whose timer is running
RunningSessions(d) ==
    {i \in DOMAIN vsess : vsess[i].dev = d /\ vsess[i].timer}

\* C13: a device has at most one voice session alive at any time: after
\* voice_start only the new session of the device has a running timer, and
\* a chunk is appended to the newest session of the device only.
C13_OneSessionPerDevice ==
    /\ \A d \in VoiceDevices : Cardinality(RunningSessions(d)) <= 1
    /\ (vlast.op = "chunk" /\ vlast.active) =>
           \A i \in DOMAIN vsess :
               vsess[i].dev = vsess[vlast.sid].dev => i <= vlast.sid

\* C13: a voice_start arrived while the device had a session in the map
C13_Witness ==
    /\ vlast.op = "start"
    /\ vlast.active
    /\ ~vsess[vlast.sid - 1].timer
    /\ vsess[vlast.sid].timer

\* C14: no transcript_partial and no transcript_final is sent for a session
\* that voice_cancel has ended.
C14_SilentAfterCancel ==
    vlast.emitted \in {"partial", "final"} => ~vlast.cancelled

\* the session of the last handler is no longer in the map
Discarded(sid) ==
    \A d \in DOMAIN voiceSessions : voiceSessions[d] # sid

\* C15 (as stated): the transcript_final of a voice_send carries the
\* transcription of the buffer whenever the buffer holds the minimum.
C15_FinalCarriesTranscription ==
    (vlast.op = "sent" /\ vlast.bytes >= MIN_AUDIO_BYTES) =>
        /\ vlast.outcome \in {"text", "empty"}
        /\ vlast.text = (IF vlast.outcome = "text" THEN "T" ELSE "")

\* C15: a voice_send on an active session stops the timer and ends with one
\* transcript_final: with the transcription when the buffer holds the
\* minimum and the transcription succeeds, with empty text when the buffer
\* is smaller or the transcription fails; the session is then out of the
\* map.  Without a session it sends nothing and changes nothing.
C15_SendEmitsFinal ==
    /\ (vlast.op = "send" /\ ~vlast.active) =>
           /\ vlast.emitted = "none"
           /\ vlast.text = ""
           /\ ~vlast.touched
    /\ (vlast.op = "send" /\ vlast.active) =>
           /\ ~vsess[vlast.sid].timer
           /\ vlast.emitted = "none"
           /\ vlast.bytes >= MIN_AUDIO_BYTES
           /\ \E q \in BagToSet(sends) :
                 q.sid = vlast.sid /\ q.bytes = vlast.bytes
    /\ vlast.op = "sent" =>
           /\ ~vsess[vlast.sid].timer
           /\ vlast.emitted = "final"
           /\ Discarded(vlast.sid)
           /\ IF vlast.bytes >= MIN_AUDIO_BYTES
              THEN /\ vlast.outcome \in Outcomes
                   /\ vlast.text =
                          (IF vlast.outcome = "text" THEN "T" ELSE "")
              ELSE vlast.outcome = "none" /\ vlast.text = ""

\* C15: a voice_send ended with the transcription of a buffer of the minimum
C15_Witness ==
    /\ vlast.op = "sent"
    /\ vlast.bytes = MIN_AUDIO_BYTES
    /\ vlast.outcome = "text"
    /\ vlast.text = "T"
    /\ ~vlast.cancelled

\* C15: a voice_send ended with empty text because the transcription failed
C15_WitnessFailed ==
    vlast.op = "sent" /\ vlast.outcome = "error" /\ vlast.text = ""

\* C16: a timer tick starts a partial transcription exactly when the buffer
\* holds the minimum and has grown since the last partial; a tick that does
\* not start one sends nothing and changes no session state.
C16_TickStartsWhenDue ==
    vlast.op = "tick" =>
        /\ vlast.started <=>
               (vlast.bytes >= MIN_AUDIO_BYTES /\ vlast.bytes > vlast.offset)
        /\ vlast.emitted = "none"
        /\ ~vlast.started => ~vlast.touched

\* C16: a tick started a transcription of new bytes after an earlier partial
C16_Witness ==
    /\ vlast.op = "tick"
    /\ vlast.started
    /\ vlast.offset >= MIN_AUDIO_BYTES
    /\ vlast.bytes > vlast.offset

\* C16: a tick found the minimum reached but nothing new, and did nothing
C16_WitnessIdle ==
    /\ vlast.op = "tick"
    /\ ~vlast.started
    /\ vlast.bytes >= MIN_AUDIO_BYTES
    /\ vlast.bytes = vlast.offset

\* the bytes of the five chunks of the example
FiveChunks == 5 * 800

\* C17: a session that got 5 chunks of 4,000 bytes in all, over more than
\* one timer interval, has sent exactly one transcript_partial when
\* voice_send is called and gets one transcript_final after it; when it is
\* cancelled instead, it has sent no transcript_partial and gets no
\* transcript_final.
C17_OnePartialOneFinal ==
    /\ (vlast.op \in {"send", "sent"} /\ vlast.active
            /\ vlast.bytes = FiveChunks /\ vlast.spread) =>
           vlast.before = 1
    /\ \A i \in DOMAIN vsess :
           (vsess[i].cancelled /\ vsess[i].totalBytes = FiveChunks
                /\ vsess[i].spread) =>
               vsess[i].nPartial = 0
    /\ vlast.emitted = "final" => ~vlast.cancelled


(***************************************************************************)
(* Agent loop                                                              *)
(***************************************************************************)
\* the last n steps exist and had one and the same screen hash
SameOverLast(n) ==
    /\ Len(hashes) >= n
    /\ \A i \in (Len(hashes) - n + 1)..Len(hashes) :
           hashes[i] = hashes[Len(hashes)]

\* every step observed so far has been evaluated
StepEvaluated == stepsUsed > 0 /\ Len(hashes) = stepsUsed

\* C18: after a step, stuck-loop detection has fired exactly when the last
\* stuckThreshold steps had the same screen hash; so it has not fired after
\* the first step whose hash differs.
C18_StuckExactlyOnRepeat ==
    StepEvaluated => (stuck <=> SameOverLast(stuckThreshold))

\* C18: detection fired on the third step with the same hash
C18_Witness ==
    /\ StepEvaluated
    /\ stepsUsed = stuckThreshold
    /\ stuck

\* C18: detection had fired, and the next step had another hash
C18_WitnessDiffers ==
    /\ StepEvaluated
    /\ stepsUsed = stuckThreshold + 1
    /\ hashes[stuckThreshold] # hashes[stuckThreshold + 1]
    /\ SameOverLast(1)
    /\ hashes[1] = hashes[stuckThreshold]
    /\ hashes[2] = hashes[stuckThreshold]
    /\ ~stuck

\* the loop ended without a terminal decision, a cancellation or an error
NoTerminalDecision ==
    /\ phase \in Terminal
    /\ decision # "done"
    /\ reason \notin {"cancelled", "reasoning error", "transport error"}

\* C19: a loop never takes more than maxSteps steps; one that ends without
\* a terminal decision has status Failed with maxSteps steps recorded; and
\* every loop reaches Completed, Failed or Cancelled in the end.
C19_StopsAtBudget ==
    /\ [](stepsUsed <= maxSteps)
    /\ [](NoTerminalDecision =>
             /\ phase = "Failed"
             /\ sessionStatus = "failed"
             /\ stepsUsed = maxSteps)
    /\ []((stepsUsed = maxSteps /\ Len(hashes) = maxSteps) =>
             phase \in Terminal)
    /\ <>(phase \in Terminal)

\* C19: the loop used its whole budget and failed
C19_Witness ==
    /\ phase = "Failed"
    /\ reason = "step budget exhausted"
    /\ stepsUsed = maxSteps
    /\ ~cancelSignal


(***************************************************************************)
(* Request correlation                                                     *)
(***************************************************************************)
\* C20: a result resolves the pending waiter of the identifier it echoes
\* and no other, whatever else is pending; a result whose identifier has no
\* pending waiter changes no waiter; a timeout fails its own waiter only and
\* leaves the device session up.
C20_ResultResolvesItsWaiter ==
    /\ rlast.op = "result" =>
           /\ rlast.changed =
                  (IF rlast.id \in rlast.before THEN {rlast.id} ELSE {})
           /\ \A i \in rlast.changed :
                  /\ settled[i] = [state |-> "resolved", by |-> i]
                  /\ i \notin pending
           /\ rlast.isUp = rlast.wasUp
    /\ rlast.op = "timeout" =>
           /\ rlast.changed = {rlast.id}
           /\ settled[rlast.id].state = "failed"
           /\ rlast.id \notin pending
           /\ rlast.isUp = rlast.wasUp

\* C20: a result resolved its waiter while an older waiter was still pending
C20_Witness ==
    /\ rlast.op = "result"
    /\ rlast.id \in rlast.before
    /\ settled[rlast.id].state = "resolved"
    /\ \E j \in pending : j < rlast.id

\* C20: a result arrived after the timeout of its waiter and was discarded
C20_WitnessLate ==
    /\ rlast.op = "result"
    /\ rlast.id \in RequestIds
    /\ settled[rlast.id].state = "failed"
    /\ rlast.changed = {}
    /\ pending # {}

\* C20: a timeout failed one waiter while another stayed pending
C20_WitnessTimeout ==
    /\ rlast.op = "timeout"
    /\ pending # {}
    /\ linkUp


(***************************************************************************)
(* Reliable transport                                                      *)
(***************************************************************************)
RECURSIVE Doubled(_, _)
\* ms doubled n times
Doubled(ms, n) == IF n = 0 THEN ms ELSE 2 * Doubled(ms, n - 1)

\* the wait the backoff schedule gives after n failed attempts
ScheduledWait(n) ==
    IF Doubled(InitialBackoffMs, n) > MaxBackoffMs
    THEN MaxBackoffMs
    ELSE Doubled(InitialBackoffMs, n)

\* C21: after a disconnect the first reconnection attempt comes after 1 s,
\* and the attempt after n failed ones after 1 s doubled n times, 30 s at
\* most; once authenticated again the wait is back at 1 s.
C21_BackoffSchedule ==
    /\ wsState = "Waiting" => backoffMs = ScheduledWait(failures)
    /\ wsState = "Connecting" => lastWaitMs = ScheduledWait(failures)
    /\ wsState = "Connected" => backoffMs = InitialBackoffMs

\* C21: the sixth attempt in a row comes after the cap of 30 s
C21_Witness ==
    /\ wsState = "Connecting"
    /\ failures = 5
    /\ lastWaitMs = MaxBackoffMs

\* C21: a reconnection after a failed attempt, then the next disconnect
C21_WitnessReset ==
    /\ wsState = "Waiting"
    /\ failures = 0
    /\ lastWaitMs > InitialBackoffMs
    /\ backoffMs = InitialBackoffMs

\* C22: the messages written to the socket followed by the buffered ones
\* are the submitted messages in submission order, each once; nothing stays
\* buffered once the device is authenticated again.
C22_FlushInOrder ==
    /\ delivered \o outbound = submitted
    /\ wsState = "Connected" => outbound = <<>>

\* C22: two messages were buffered while disconnected and sent, after one
\* sent directly, when the device was authenticated again
C22_Witness ==
    /\ wsState = "Connected"
    /\ Len(lastFlush) >= 2
    /\ Len(delivered) > Len(lastFlush)
    /\ delivered = submitted


(***************************************************************************)
(* Skills                                                                  *)
(***************************************************************************)
\* the names executeSkill knows
KnownSkills ==
    {"read_screen", "submit_message", "copy_visible_text",
     "wait_for_content", "find_and_tap", "compose_email",
     "like_nth_comment", "verify_nth_comment_like"}

\* the skill a decision names: its skill field, or its action without one
NamedSkill(dec) == IF dec.skill = Unnamed THEN dec.action ELSE dec.skill

\* a call of executeSkill has returned
Returned == skillPc = "idle" /\ locals # NoLocals

Taps == SelectSeq(cmds, LAMBDA c : c.kind = "tap")

\* C24: when the element list holds no element that is both enabled and
\* clickable, submit_message returns success = false, its message names
\* the cause, and it has issued no tap
C24_NoButtonNoTap ==
    /\ Returned
    /\ NamedSkill(locals.dec) = "submit_message"
    /\ \A i \in DOMAIN locals.elements :
           ~(locals.elements[i].enabled /\ locals.elements[i].clickable)
    => /\ ~result.success
       /\ result.message = "Could not find a Send/Submit button on screen"
       /\ Taps = <<>>


\* an element of the list has a text that contains the query, whatever
\* the case of the letters
HasMatch(els, query) ==
    \E i \in DOMAIN els :
        /\ els[i].text # <<>>
        /\ includes(toLowerCase(els[i].text), toLowerCase(query))

\* the screens the call has looked at: the one passed in, then the
\* re-observations
Observations == <<locals.elements>> \o rescans

\* n scroll commands
Scrolls(n) == [i \in 1..n |-> Swipe]

\* C25: find_and_tap whose query first matches at the k-th re-observation
\* (k = 0 for the current screen, k <= 10) has issued exactly k scrolls and
\* then one tap at the centre of a matching element of that observation,
\* and reports success; when no observation within 10 scrolls matches it
\* has issued exactly 10 scrolls and no tap and reports failure; with an
\* empty query it has issued no command and reports failure
C25_ScrollsThenTap ==
    /\ Returned /\ NamedSkill(locals.dec) = "find_and_tap"
       => LET query == locals.dec.query
              k == Len(rescans)
              latest == Observations[k + 1]
          IN IF ~Truthy(query)
             THEN cmds = <<>> /\ rescans = <<>> /\ ~result.success
             ELSE /\ \A j \in 1..k : ~HasMatch(Observations[j], query)
                  /\ k <= 10
                  /\ IF HasMatch(latest, query)
                     THEN /\ result.success
                          /\ \E i \in DOMAIN latest :
                                 /\ includes(toLowerCase(latest[i].text),
                                             toLowerCase(query))
                                 /\ cmds = Scrolls(k)
                                        \o <<Tap(latest[i].center)>>
                     ELSE /\ k = 10
                          /\ cmds = Scrolls(10)
                          /\ ~result.success
    /\ skillPc = "find_and_tap"
       => /\ cmds = Scrolls(Len(rescans))
          /\ Len(rescans) < 10
          /\ \A j \in 1..(Len(rescans) + 1) :
                 ~HasMatch(Observations[j], locals.dec.query)

\* C25 witness: the entry appeared at the tenth re-observation, after a
\* longer entry that is disabled, and was tapped after ten scrolls
C25_Witness ==
    /\ Returned /\ NamedSkill(locals.dec) = "find_and_tap"
    /\ Len(rescans) = 10
    /\ rescans[10] = SettingsScreen
    /\ cmds = Scrolls(10) \o <<Tap(<<540, 600>>)>>
    /\ result.success

\* the search gave up after ten scrolls
C25_WitnessExhausted ==
    /\ Returned /\ NamedSkill(locals.dec) = "find_and_tap"
    /\ Truthy(locals.dec.query)
    /\ cmds = Scrolls(10)
    /\ ~result.success


\* the total length of the texts of a screen that are not texts of the
\* screen the call started on
RECURSIVE NewLength(_, _)
NewLength(els, initial) ==
    IF els = <<>> THEN 0
    ELSE (IF /\ Head(els).text # <<>>
             /\ \A i \in DOMAIN initial : initial[i].text # Head(els).text
          THEN Len(Head(els).text) ELSE 0)
         + NewLength(Tail(els), initial)

\* C26: wait_for_content re-observes at most 5 times; it returns success at
\* the first re-observation whose texts absent from the initial snapshot
\* total more than 20 characters, and failure after exactly 5
\* re-observations otherwise; it issues no command
C26_PollsUntilNewContent ==
    /\ Returned /\ NamedSkill(locals.dec) = "wait_for_content"
       => LET k == Len(rescans)
          IN /\ k \in 1..5
             /\ \A j \in 1..(k - 1) :
                    NewLength(rescans[j], locals.elements) <= 20
             /\ IF NewLength(rescans[k], locals.elements) > 20
                THEN result.success
                ELSE k = 5 /\ ~result.success
             /\ cmds = <<>>
    /\ skillPc = "wait_for_content"
       => /\ Len(rescans) < 5
          /\ \A j \in 1..Len(rescans) :
                 NewLength(rescans[j], locals.elements) <= 20
          /\ cmds = <<>>

\* C26 witness: exactly 20 new characters at the fourth re-observation were
\* not enough, 10 + 11 new characters at the fifth were
C26_Witness ==
    /\ Returned /\ NamedSkill(locals.dec) = "wait_for_content"
    /\ locals.elements = OldScreen
    /\ Len(rescans) = 5
    /\ rescans[4] = OneMoreText(20)
    /\ rescans[5] = TwoMoreTexts
    /\ result.success

\* five re-observations without enough new text
C26_WitnessTimeout ==
    /\ Returned /\ NamedSkill(locals.dec) = "wait_for_content"
    /\ Len(rescans) = 5
    /\ rescans[5] = OneMoreText(20)
    /\ ~result.success


\* a call of verify_nth_comment_like has returned with N rows visible
Verified ==
    /\ Returned
    /\ NamedSkill(locals.dec) = "verify_nth_comment_like"
    /\ Len(collectCommentLikeRows(locals.elements)) >= locals.index

\* what like_nth_comment recorded for an ordinal, NoAttempt for nothing
RecordedFor(n) == IF n \in DOMAIN likeLog THEN likeLog[n] ELSE NoAttempt

\* the row verify_nth_comment_like is to look at for ordinal n: the row
\* nearest to the recorded position when it is within 80 px, else the n-th
LocatedRow(n) ==
    locals.elements[VerifyTarget(locals.elements,
                                 collectCommentLikeRows(locals.elements),
                                 n, RecordedFor(n))]

\* the numeric label near the located row differs from the count recorded
\* before the tap for ordinal n
CountDiffers(n) ==
    LET countNow == findNearbyCommentCount(locals.elements, LocatedRow(n))
    IN /\ RecordedFor(n).countBefore # NoCount
       /\ countNow # NoCount
       /\ countNow # RecordedFor(n).countBefore

\* C27: verify_nth_comment_like reports success exactly when the located
\* row shows a selected, checked or undo-like signal or the numeric label
\* near it differs from the count recorded before the tap for that ordinal;
\* otherwise, with N rows visible, it reports 'not confirmed yet' with
\* success = false; it issues no command and does not change the recorded
\* last attempt
C27_VerifiedBySignalOrCount ==
    /\ [](Verified =>
            /\ result.success <=>
                   SelectedLike(LocatedRow(locals.index))
                       \/ CountDiffers(locals.index)
            /\ ~result.success => result.message = "like not confirmed yet"
            /\ cmds = <<>>)
    /\ [][NamedSkill(locals'.dec) = "verify_nth_comment_like"
              => lastCommentLikeAttempt' = lastCommentLikeAttempt]_vars

\* C28: what like_nth_comment recorded is kept per ordinal: a
\* verify_nth_comment_like for N, after like_nth_comment for N and for
\* other ordinals, works on the row position and the count recorded for N
C28_KeptPerOrdinal ==
    Verified /\ locals.index \in DOMAIN likeLog
        => lastCommentLikeAttempt = likeLog[locals.index]

\* the ordinal a decision gives: the first number of its query, or of its
\* text when there is no query, with its sign; 3 when there is no number
\* or the number is not positive
GivenOrdinal(dec) ==
    LET raw == IF dec.query # Undefined THEN dec.query
               ELSE IF dec.text # Undefined THEN dec.text
               ELSE <<>>
        starts == {i \in 1..Len(raw) : IsDigit(raw[i])}
        from == First(starts)
        magnitude == parseInt(MatchDigits(raw))
        negative == from > 1 /\ raw[from - 1] = "-"
    IN IF starts = {} THEN 3
       ELSE IF negative \/ magnitude = 0 THEN 3
       ELSE magnitude

\* C29: the ordinal used by like_nth_comment and verify_nth_comment_like is
\* the number given in the query, or in the text when no query is given,
\* when that number is positive, and 3 when no number is given or the
\* number is zero or negative
C29_OrdinalFromDecision ==
    /\ Returned
    /\ NamedSkill(locals.dec)
           \in {"like_nth_comment", "verify_nth_comment_like"}
    => locals.index = GivenOrdinal(locals.dec)


(***************************************************************************)
(* getScreenTree                                                           *)
(***************************************************************************)
\* an attempt that found a null root or zero elements
Unsuccessful(window) == ~window.root \/ window.elements = <<>>

\* the attempts of the call that were unsuccessful
Failures == {i \in DOMAIN treeAttempts : Unsuccessful(treeAttempts[i])}

\* a call of getScreenTree has returned
TreeReturned == treePc = "idle" /\ treeResult.returned

\* at most 5 attempts, all unsuccessful but possibly the last; the first
\* non-empty list is what is returned, and an empty list is returned only
\* after 5 unsuccessful attempts
FirstCaptureReturned ==
    /\ Len(treeAttempts) <= 5
    /\ \A i \in 1..(Len(treeAttempts) - 1) : i \in Failures
    /\ treePc = "attempt" => Failures = DOMAIN treeAttempts
    /\ TreeReturned =>
           IF Len(treeAttempts) \in Failures
           THEN Len(treeAttempts) = 5 /\ treeResult.elements = <<>>
           ELSE treeResult.elements = treeAttempts[Len(treeAttempts)].elements

\* C30 as stated: getScreenTree makes at most 5 attempts and waits 50, 100,
\* 200, 300 and 500 ms after its successive unsuccessful attempts, returns
\* the first non-empty list it captures and returns an empty list only
\* when every attempt found a null root or zero elements
C30_WaitsAfterEveryFailure ==
    /\ FirstCaptureReturned
    /\ waits = Take(delays, Cardinality(Failures))

\* C30 amended: the waits are 50, 100, 200 and 300 ms after the first four
\* unsuccessful attempts, and 500 ms after a fifth attempt only when it
\* found a null root: a fifth attempt that finds a root with zero elements
\* returns the empty list at once
C30_WaitsUnlessLastIsEmpty ==
    /\ FirstCaptureReturned
    /\ waits = Take(delays,
                    Cardinality({i \in Failures :
                                    i < 5 \/ ~treeAttempts[i].root}))

\* C30 witness: four attempts without a root, then a root with zero
\* elements: the empty list is returned after waits of 50 to 300 ms only
C30_Witness ==
    /\ TreeReturned
    /\ Len(treeAttempts) = 5
    /\ treeAttempts[5] = Window(TRUE, <<>>)
    /\ waits = <<50, 100, 200, 300>>
    /\ treeResult.elements = <<>>

\* five attempts without a root: all five waits
C30_WitnessNoRoot ==
    /\ TreeReturned
    /\ Len(treeAttempts) = 5
    /\ ~treeAttempts[5].root
    /\ waits = delays

\* the third attempt captured elements after two waits
C30_WitnessThird ==
    /\ TreeReturned
    /\ Len(treeAttempts) = 3
    /\ treeResult.elements = <<"a", "b">>
    /\ lastScreenTree = <<"a", "b">>
    /\ waits = <<50, 100>>


\* session i is the one the map holds for its device
Registered(i) ==
    /\ MapHas(voiceSessions, vsess[i].dev)
    /\ voiceSessions[vsess[i].dev] = i

\* C31: a session started while a voice_send of its device awaits the final
\* transcription stays registered when that voice_send completes: the timer
\* of a session runs only while the map holds the session.
C31_TimerOnlyWhileRegistered ==
    \A i \in DOMAIN vsess : vsess[i].timer => Registered(i)


\* C32: once transcript_final was sent for a session no transcript_partial
\* of that session is sent, and a session gets one transcript_final at most,
\* also when two voice_send requests for it overlap.
C32_FinalIsLast ==
    /\ (vlast.op = "partial" /\ vlast.emitted = "partial") =>
           vsess[vlast.sid].nFinal = 0
    /\ \A i \in DOMAIN vsess : vsess[i].nFinal <= 1

\* C32: a transcript_partial sent after the transcript_final of its session
C32_PartialAfterFinal ==
    /\ vlast.op = "partial"
    /\ vlast.emitted = "partial"
    /\ vsess[vlast.sid].nFinal > 0

\* C32: two transcript_final sent for one session
C32_TwoFinals ==
    \E i \in DOMAIN vsess : vsess[i].nFinal = 2


\* C33: in every session totalBytes is the sum of the lengths of the
\* buffered chunks, and lastPartialOffset is at most the number of bytes given
\* to the last partial transcription that returned, so that audio arriving
\* during a partial transcription is new at the next tick.
C33_OffsetCoversTranscribedOnly ==
    \A i \in DOMAIN vsess :
        /\ vsess[i].totalBytes = concatChunks(vsess[i].chunks)
        /\ vsess[i].lastPartialOffset <= vsess[i].partialBytes

\* C33: totalBytes is the sum of the lengths of the buffered chunks
C33_TotalIsSum ==
    \A i \in DOMAIN vsess :
        vsess[i].totalBytes = concatChunks(vsess[i].chunks)

\* C33: a chunk arrived during a partial transcription and the timer
\* callback does not transcribe at the next tick
C33_ArrivedDuringPartialSkipped ==
    /\ vlast.op = "tick"
    /\ ~vlast.started
    /\ vsess[vlast.sid].totalBytes > vsess[vlast.sid].partialBytes
    /\ vsess[vlast.sid].partialBytes >= MIN_AUDIO_BYTES


\* C34: a partial transcription that fails sends nothing and leaves the
\* session as it was, lastPartialOffset included; a final transcription that
\* fails still sends transcript_final, with empty text, and the device has no
\* session afterwards; a chunk for a device without session changes nothing
\* and creates no session.
C34_FailuresAndStrayChunks ==
    [][/\ (vlast'.op = "partial" /\ vlast'.outcome = "error") =>
              /\ vlast'.emitted = "none"
              /\ SessionFields(vsess') = SessionFields(vsess)
              /\ voiceSessions' = voiceSessions
       /\ (vlast'.op = "sent" /\ vlast'.outcome = "error") =>
              /\ vlast'.emitted = "final"
              /\ vlast'.text = ""
              /\ ~MapHas(voiceSessions', vsess[vlast'.sid].dev)
       /\ (vlast'.op = "chunk" /\ ~vlast'.active) =>
              /\ voiceSessions' = voiceSessions
              /\ vsess' = vsess
              /\ partials' = partials
              /\ sends' = sends]_vars

\* C34: a partial transcription failed; the timer of its session runs and
\* the audio is due again at the next tick
C34_Witness ==
    /\ vlast.op = "partial"
    /\ vlast.outcome = "error"
    /\ vsess[vlast.sid].timer
    /\ vsess[vlast.sid].lastPartialOffset = 0
    /\ TickDue(vsess[vlast.sid])

\* C34: a final transcription failed
C34_WitnessFinalFailed ==
    /\ vlast.op = "sent"
    /\ vlast.outcome = "error"
    /\ vlast.bytes >= MIN_AUDIO_BYTES
    /\ voiceSessions = EmptyMap

\* C34: a chunk arrived for a device whose session had ended
C34_WitnessStrayChunk ==
    /\ vlast.op = "chunk"
    /\ ~vlast.active
    /\ vsess # <<>>


(***************************************************************************)
(* Claims about the admission map and the ownership check.                 *)
(***************************************************************************)
\* C35: while a loop runs, the admission map has an entry under the key the
\* loop was admitted with, and the end of a loop leaves the entry in place
\* when another loop admitted with that key is still running.
C35_RunningLoopIsGuarded ==
    /\ \A i \in DOMAIN loops : MapHas(activeSessions, loops[i].key)
    /\ (last.op \in {"then", "catch"} /\ RunningOn(last.key) # {}) =>
           MapHas(activeSessions, last.key)


\* C36: a caller who does not own the device named in a submission or a stop
\* is answered forbidden: the answer carries no session identifier and no
\* goal, no controller is aborted and the admission map is unchanged.
C36_StrangerLearnsNothing ==
    (last.op \in {"post", "stop"} /\ ~last.missing /\ last.conn # Null
        /\ ~last.owner) =>
        /\ last.out = "forbidden"
        /\ last.sessionId = NoLast.sessionId
        /\ last.rgoal = ""
        /\ last.target = 0
        /\ ~last.touched

\* C36: a submission of a caller who does not own the device, made while a
\* session is running on it
C36_Witness ==
    /\ last.op = "post"
    /\ last.conn # Null
    /\ ~last.owner
    /\ last.running # {}
    /\ MapHas(activeSessions, last.key)

\* C36: the same for a stop
C36_WitnessStop ==
    /\ last.op = "stop"
    /\ last.conn # Null
    /\ ~last.owner
    /\ last.running # {}
    /\ MapHas(activeSessions, last.key)
    /\ aborted = {}


(***************************************************************************)
(* Claims about the rows of comment likes and the choice of a target.      *)
(***************************************************************************)
\* a comment-like skill has returned for the screen in locals
RowsComputed ==
    /\ skillPc = "idle"
    /\ returned > 0
    /\ SkillName(locals.dec) \in {"like_nth_comment", "verify_nth_comment_like"}

\* the element can be tapped: clickable, or tap as its action
Interactive(el) == el.clickable \/ el.action = "tap"

\* rows are sorted top to bottom and more than 24 px apart, each lies in the
\* right 28% of the width and between the bands, carries "like" in its text,
\* id or hint and satisfies the test, and is the rightmost of the candidates
\* merged into it
RowsAre(elements, Test(_)) ==
    LET rows == collectCommentLikeRows(elements)
        width == ScreenWidth(elements)
        loop == MergedRows(elements, SortedCandidates(elements), <<>>, <<>>)
    IN
    /\ \A j \in DOMAIN rows, k \in DOMAIN rows :
           j < k => elements[rows[k]].center[2]
                        - elements[rows[j]].center[2] > 24
    /\ \A k \in DOMAIN rows :
           LET el == elements[rows[k]] IN
           /\ includes(Hay(el), LIKE)
           /\ Test(el)
           /\ el.center[1] * 100 >= width * 72
           /\ el.center[2] >= 900
           /\ el.center[2] <= 2300
    /\ \A k \in DOMAIN loop.rows :
           /\ loop.rows[k] \in loop.merged[k]
           /\ \A c \in loop.merged[k] :
                  elements[c].center[1]
                      <= elements[loop.rows[k]].center[1]

\* the element can be tapped or its text reads "like or undo like"
InteractiveOrLabelled(el) ==
    Interactive(el) \/ includes(toLowerCase(el.text), LIKE_OR_UNDO_LIKE)

\* C37: the rows computed for a screen are sorted top to bottom, any two are
\* more than 24 px apart, each is a like-labelled interactive element in the
\* right 28% of the width outside the header and footer bands, and the
\* rightmost of the candidates merged into a row is kept.
C37_RowsOfInteractiveLikes ==
    RowsComputed => RowsAre(locals.elements, Interactive)

\* C37, with the label that counts as a like button: each row is a
\* like-labelled element that is interactive or whose text contains "like or
\* undo like"; the rest as above.
C37_RowsOfLikes ==
    RowsComputed => RowsAre(locals.elements, InteractiveOrLabelled)

\* C37: three buttons merged into one row although the first and the last
\* are 44 px apart, the rightmost kept
C37_Witness ==
    /\ RowsComputed
    /\ Len(locals.elements) = 3
    /\ LET loop == MergedRows(locals.elements,
                              SortedCandidates(locals.elements), <<>>, <<>>)
       IN /\ Len(loop.rows) = 1
          /\ Cardinality(loop.merged[1]) = 3
          /\ \E a \in loop.merged[1], b \in loop.merged[1] :
                 locals.elements[b].center[2]
                     - locals.elements[a].center[2] = 44
          /\ locals.elements[loop.rows[1]].center[1] = 1040

\* C37: a row that is a label and cannot be tapped
C37_WitnessLabel ==
    /\ RowsComputed
    /\ \E k \in DOMAIN collectCommentLikeRows(locals.elements) :
           ~Interactive(locals.elements[
                            collectCommentLikeRows(locals.elements)[k]])


\* getScreenApprox (skills.ts 532-542): the height
ScreenHeight(elements) ==
    LET bottoms == {2400} \cup
            {elements[i].center[2]
                 + (IF elements[i].size[2] \div 2 > 0
                    THEN elements[i].size[2] \div 2 ELSE 0) :
             i \in DOMAIN elements}
    IN CHOOSE h \in bottoms : \A v \in bottoms : v <= h

\* the enabled clickable elements in the bottom 20% of the screen height
BottomFifth(elements) ==
    {i \in DOMAIN elements :
        /\ IsEnabledClickable(elements[i])
        /\ elements[i].center[2] * 10 >= ScreenHeight(elements) * 8}

\* C38: when no enabled clickable element matches the send pattern (and the
\* list has enabled clickable elements), submit_message taps once when one
\* of them lies in the bottom 20% of the screen height, and what it taps is
\* the rightmost of those.
C38_FallbackTapsBottomRight ==
    LET els == locals.elements IN
    /\ Returned
    /\ NamedSkill(locals.dec) = "submit_message"
    /\ \A i \in DOMAIN els :
           IsEnabledClickable(els[i]) =>
               ~(TestSendButton(els[i].text) \/ TestSendButton(els[i].id))
    /\ \E i \in DOMAIN els : IsEnabledClickable(els[i])
    => /\ Len(Taps) <= 1
       /\ BottomFifth(els) # {} => Len(Taps) = 1
       /\ \A k \in DOMAIN Taps :
              \E i \in BottomFifth(els) :
                  /\ Taps[k].at = els[i].center
                  /\ \A j \in BottomFifth(els) :
                         els[j].center[1] <= els[i].center[1]

\* C38: the fallback tapped the rightmost of the low buttons
C38_RightmostTapped ==
    /\ Returned
    /\ NamedSkill(locals.dec) = "submit_message"
    /\ locals.elements = ButtonsScreen
    /\ Taps = <<Tap(<<900, 2150>>)>>


\* the elements of a list whose text contains the query, whatever the case
Containing(els, query) ==
    {i \in DOMAIN els :
        /\ els[i].text # <<>>
        /\ includes(toLowerCase(els[i].text), toLowerCase(query))}

\* 10 for enabled, 5 for clickable or long-clickable, 20 for a text equal to
\* the query up to case and 5 for a text that only contains it
Score(el, query) ==
    (IF el.enabled THEN 10 ELSE 0)
    + (IF el.clickable \/ el.longClickable THEN 5 ELSE 0)
    + (IF toLowerCase(el.text) = toLowerCase(query) THEN 20 ELSE 5)

\* C39: find_and_tap taps, of the elements of the observation that contain
\* the query, the one with the highest score (10 for enabled, 5 for clickable
\* or long-clickable, 20 for an exact match and 5 for a partial one), and the
\* first in element order among those of equal score.
C39_TapsHighestScoreFirst ==
    /\ Returned
    /\ NamedSkill(locals.dec) = "find_and_tap"
    /\ Truthy(locals.dec.query)
    /\ Containing(Observations[Len(rescans) + 1], locals.dec.query) # {}
    => LET latest == Observations[Len(rescans) + 1]
           query == locals.dec.query
           found == Containing(latest, query)
           best == CHOOSE i \in found :
                       \A j \in found :
                           \/ Score(latest[j], query) < Score(latest[i], query)
                           \/ /\ Score(latest[j], query)
                                     = Score(latest[i], query)
                              /\ i <= j
       IN /\ Taps = <<Tap(latest[best].center)>>
          /\ result.data = latest[best].text

\* C39: four elements contain the query, the two with the highest score are
\* equal in score, and the first of them was tapped
C39_Witness ==
    /\ Returned
    /\ NamedSkill(locals.dec) = "find_and_tap"
    /\ Truthy(locals.dec.query)
    /\ Observations[Len(rescans) + 1] = TiedScreen
    /\ Cardinality(Containing(TiedScreen, locals.dec.query)) = 4
    /\ Score(TiedScreen[1], locals.dec.query)
           = Score(TiedScreen[2], locals.dec.query)
    /\ Taps = <<Tap(<<540, 300>>)>>

\* C39: a later element with the higher score was tapped, after scrolls
C39_WitnessLater ==
    /\ Returned
    /\ NamedSkill(locals.dec) = "find_and_tap"
    /\ Len(rescans) > 0
    /\ Observations[Len(rescans) + 1] = SettingsScreen
    /\ Taps = <<Tap(<<540, 600>>)>>


(***************************************************************************)
(* Claims about the hints of investigate.                                  *)
(***************************************************************************)
\* the hints stored for a user and a package
StoredHints(user, packageName) ==
    {r \in appHint : r.userId = user /\ r.packageName = packageName}

\* no call of investigate is in progress
AllCompleted == Investigating = {}

\* C40: when the investigate calls made so far have completed, at most 5
\* hints are stored for each user and package; the rows a call deleted are
\* the oldest of those it found, and it has inserted every hint it took
\* from the response (5 at most).
C40_AtMostFiveHints ==
    AllCompleted =>
        /\ \A u \in HintUsers, p \in HintPackages :
               Cardinality(StoredHints(u, p)) <= 5
        /\ \A i \in DOMAIN investigations :
               LET c == investigations[i] IN
               c.pc = "done" =>
                   /\ \A d \in Range(c.deleted) :
                          \A e \in Range(c.existing) \ Range(c.deleted) :
                              d < e
                   /\ Cardinality(c.inserted) = c.hints
                   /\ c.hints <= 5

\* C40: two calls for one package have completed one after the other, the
\* second deleted the oldest row and five hints are stored
C40_WitnessInTurn ==
    /\ AllCompleted
    /\ Len(investigations) = 2
    /\ investigations[1].inserted = {1, 2, 3}
    /\ investigations[2].existing = <<3, 2, 1>>
    /\ investigations[2].deleted = <<1>>
    /\ investigations[2].inserted = {4, 5, 6}
    /\ {r.id : r \in appHint} = {2, 3, 4, 5, 6}

\* C40: more than 5 hints stored for a package after overlapping calls
C40_WitnessOverlap ==
    /\ AllCompleted
    /\ \E u \in HintUsers, p \in HintPackages :
           Cardinality(StoredHints(u, p)) > 5

====
